---- MODULE Spec2Model ----
(***************************************************************************)
(* A model of the childcare-leads pipeline: the Deduplicator               *)
(* (analyzers/deduplicator.py) with its existing-data provider             *)
(* (core/sheets_manager.py), the scorers (analyzers/scorer.py,             *)
(* analyzers/claude_analyzer.py), and the DataProcessor                    *)
(* (core/data_processor.py) with the DataValidator and the helpers it      *)
(* calls (utils/validators.py, utils/helpers.py).                          *)
(*                                                                         *)
(* A Python str is modelled as a sequence of one-character strings, so     *)
(* that lower(), strip(), split(), substring search and the similarity     *)
(* ratio are computed, not assumed; a character outside ASCII is written   *)
(* as the name of its code point ("U+65B0").                               *)
(***************************************************************************)
EXTENDS Integers, Sequences, FiniteSets, TLC

(***************************************************************************)
(* Bounds of the model.                                                    *)
(***************************************************************************)
\* longest batch handed to remove_duplicates
MaxBatch == 3
\* number of remove_duplicates calls made on one Deduplicator instance
MaxCalls == 2
\* longest batch of the runs that call remove_duplicates several times
MaxSeedBatch == 2
\* longest list handed to batch_score
MaxScoreBatch == 3
MaxRawBatch == 2
MaxWithinBatch == 3
MaxWithinCalls == 2
MaxDerivedBatch == 2
\* calls on one NotificationManager go on while its log is shorter than this
MaxNotifyLog == 4
\* the longest list of leads handed to process_scored_leads
MaxLeads == 2
\* the largest cap on instant alerts
MaxCap == 2
\* the most records the fetchers of one run hand over
MaxFetched == 2
\* consecutive runs of main(), and the records each fetches
MaxRuns == 2
MaxRunBatch == 2

(***************************************************************************)
(* Characters and the str methods the code uses.                           *)
(***************************************************************************)
UpperCase == <<"A", "B", "C", "D", "E", "F", "G", "H", "I", "J", "K", "L", "M", "N", "O", "P", "Q", "R", "S", "T", "U", "V", "W", "X", "Y", "Z">>
LowerCase == <<"a", "b", "c", "d", "e", "f", "g", "h", "i", "j", "k", "l", "m", "n", "o", "p", "q", "r", "s", "t", "u", "v", "w", "x", "y", "z">>
DigitChars == <<"0", "1", "2", "3", "4", "5", "6", "7", "8", "9">>
\* code-point order of the alphanumeric characters: digits < A-Z < a-z
CodeOrder == DigitChars \o UpperCase \o LowerCase

InSeq(seq, c) == \E i \in 1..Len(seq) : seq[i] = c
IndexOf(seq, c) == CHOOSE i \in 1..Len(seq) : seq[i] = c
Max(a, b) == IF a >= b THEN a ELSE b
Min(a, b) == IF a <= b THEN a ELSE b

IsSpace(c) == c \in {" ", "\t", "\n", "\r"}
IsAlnum(c) == InSeq(CodeOrder, c)

\* str.lower()
lower(s) ==
    [i \in 1..Len(s) |->
        IF InSeq(UpperCase, s[i]) THEN LowerCase[IndexOf(UpperCase, s[i])] ELSE s[i]]

\* str.strip(): leading and trailing whitespace removed
strip(s) ==
    LET RECURSIVE lstrip(_), rstrip(_)
        lstrip(t) == IF t # <<>> /\ IsSpace(Head(t)) THEN lstrip(Tail(t)) ELSE t
        rstrip(t) ==
            IF t # <<>> /\ IsSpace(t[Len(t)])
            THEN rstrip(SubSeq(t, 1, Len(t) - 1)) ELSE t
    IN  rstrip(lstrip(s))

\* dict.get(key, ''): the value, or the empty string when the key is absent
Get(record, key) == IF key \in DOMAIN record THEN record[key] ELSE <<>>

\* s < t in Python's string order (by code point, a proper prefix first)
RECURSIVE StrLess(_, _)
StrLess(s, t) ==
    IF t = <<>> THEN FALSE
    ELSE IF s = <<>> THEN TRUE
    ELSE IF Head(s) = Head(t) THEN StrLess(Tail(s), Tail(t))
    ELSE IndexOf(CodeOrder, Head(s)) < IndexOf(CodeOrder, Head(t))

(***************************************************************************)
(* fuzz.token_sort_ratio(s1, s2) of fuzzywuzzy, as called by               *)
(* _is_similar_address: both strings are processed (non-alphanumerics to   *)
(* spaces, lower-cased, stripped), split on whitespace, the tokens sorted  *)
(* and joined by one space, and the two results compared by                *)
(* ratio = round(100 * 2 * M / T), M the matched characters (the longest   *)
(* common subsequence, as python-Levenshtein computes it) and T the sum of *)
(* the two lengths.                                                        *)
(***************************************************************************)
process_and_sort(s) ==
    LET full_process ==
            strip(lower([i \in 1..Len(s) |-> IF IsAlnum(s[i]) THEN s[i] ELSE " "]))
        \* str.split(): the maximal runs of non-whitespace characters
        RECURSIVE SplitFrom(_, _, _)
        SplitFrom(t, cur, acc) ==
            IF t = <<>> THEN (IF cur = <<>> THEN acc ELSE Append(acc, cur))
            ELSE IF IsSpace(Head(t))
                 THEN SplitFrom(Tail(t), <<>>,
                                IF cur = <<>> THEN acc ELSE Append(acc, cur))
                 ELSE SplitFrom(Tail(t), Append(cur, Head(t)), acc)
        \* sorted(tokens), by insertion
        RECURSIVE Insert(_, _)
        Insert(tok, sortedToks) ==
            IF sortedToks = <<>> THEN <<tok>>
            ELSE IF StrLess(Head(sortedToks), tok)
                 THEN <<Head(sortedToks)>> \o Insert(tok, Tail(sortedToks))
                 ELSE <<tok>> \o sortedToks
        RECURSIVE sorted(_)
        sorted(toks) ==
            IF toks = <<>> THEN <<>> ELSE Insert(Head(toks), sorted(Tail(toks)))
        \* " ".join(tokens)
        RECURSIVE join(_)
        join(toks) ==
            IF toks = <<>> THEN <<>>
            ELSE IF Len(toks) = 1 THEN Head(toks)
            ELSE Head(toks) \o <<" ">> \o join(Tail(toks))
    IN  strip(join(sorted(SplitFrom(full_process, <<>>, <<>>))))

\* fuzz.ratio: 100 for equal strings, 0 when either is empty
ratio(s, t) ==
    LET \* one row of the longest-common-subsequence table: prev is the row of
        \* the characters before c, acc the part of the new row already filled
        \* (column 0 first)
        RECURSIVE LcsRow(_, _, _)
        LcsRow(prev, c, acc) ==
            IF Len(acc) = Len(t) + 1 THEN acc
            ELSE LET j == Len(acc)
                     v == IF c = t[j] THEN prev[j] + 1
                          ELSE Max(prev[j + 1], acc[j])
                 IN  LcsRow(prev, c, Append(acc, v))
        RECURSIVE LcsFrom(_, _)
        LcsFrom(i, prev) ==
            IF i > Len(s) THEN prev[Len(t) + 1]
            ELSE LcsFrom(i + 1, LcsRow(prev, s[i], <<0>>))
        m == LcsFrom(1, [j \in 1..(Len(t) + 1) |-> 0])
        total == Len(s) + Len(t)
        \* int(round(100 * 2.0 * m / total)): Python 3 rounds a half to even
        q == (200 * m) \div total
        r == (200 * m) % total
    IN  IF s = t THEN 100
        ELSE IF s = <<>> \/ t = <<>> THEN 0
        ELSE IF 2 * r > total THEN q + 1
        ELSE IF 2 * r < total THEN q
        ELSE IF q % 2 = 0 THEN q ELSE q + 1

token_sort_ratio(s1, s2) == ratio(process_and_sort(s1), process_and_sort(s2))

(***************************************************************************)
(* The data of the model: records, batches and the contents of the sheet.  *)
(***************************************************************************)
\* str(n): the decimal digits of a natural number
RECURSIVE Decimal(_)
Decimal(n) ==
    IF n < 10 THEN <<DigitChars[n + 1]>>
    ELSE Decimal(n \div 10) \o <<DigitChars[(n % 10) + 1]>>
\* n distinct filler addresses, for the address column of a large sheet
Fillers(n) == {<<"z">> \o Decimal(i) : i \in 1..n}

\* if len(existing_addresses) > 1000
LARGE_ADDRESS_SET == 1000
\* ADDRESS_SIMILARITY_THRESHOLD = 90
ADDRESS_SIMILARITY_THRESHOLD == 90

\* The records a batch is drawn from.  Between them: the same licence with and
\* without surrounding blanks, the same name and address in another case, the
\* tokens of an address in another order (ratio 100), addresses at ratio 95, 90
\* and 89 of another, an empty address, and a record with no licence key.
RecordUniverse ==
    { [license_number |-> <<"O", "N", "-", "1", "0", "0", "1">>, name |-> <<"k", "i", "d", "s">>, address |-> <<"1", "2", " ", "M", "a", "i", "n", " ", "S", "t">>],
      [license_number |-> <<"O", "N", "-", "1", "0", "0", "1">>, name |-> <<"t", "o", "t", "s">>, address |-> <<"7", " ", "o", "a", "k", " ", "a", "v", "e">>],
      [license_number |-> <<>>, name |-> <<"K", "i", "d", "s", " ">>, address |-> <<" ", "1", "2", " ", "m", "a", "i", "n", " ", "s", "t">>],
      [name |-> <<"t", "o", "t", "s">>, address |-> <<"m", "a", "i", "n", " ", "s", "t", " ", "1", "2">>],
      [license_number |-> <<" ", "O", "N", "-", "2", "0", "0", "2", " ">>, name |-> <<"t", "o", "t", "s">>, address |-> <<"1", "2", " ", "m", "a", "i", "n", " ", "s", "q">>],
      [license_number |-> <<>>, name |-> <<"t", "o", "t", "s">>, address |-> <<"2", " ", "m", "a", "i", "n", " ", "s", "t">>],
      [license_number |-> <<>>, name |-> <<"k", "i", "d", "s">>, address |-> <<"7", " ", "o", "a", "k", " ", "a", "v", "o">>],
      [license_number |-> <<"O", "N", "-", "2", "0", "0", "2">>, name |-> <<"k", "i", "d", "s">>, address |-> <<>>],
      [license_number |-> <<" ">>, name |-> <<>>, address |-> <<" ", " ">>] }

RECURSIVE SeqsUpTo(_, _)
SeqsUpTo(S, n) ==
    IF n = 0 THEN {<<>>}
    ELSE LET shorter == SeqsUpTo(S, n - 1)
         IN  shorter \cup {Append(b, r) : b \in {c \in shorter : Len(c) = n - 1}, r \in S}

\* The cells of the licence column (H) and of the address column (F) of the
\* new-projects sheet, below the header row.
Sheets ==
    << [license_col |-> {}, address_col |-> {}],
       [license_col |-> {<<"O", "N", "-", "1", "0", "0", "1">>}, address_col |-> {<<"1", "2", " ", "M", "a", "i", "n", " ", "S", "t">>}],
       [license_col |-> {<<"O", "N", "-", "2", "0", "0", "2">>, <<>>}, address_col |-> {<<"7", " ", "O", "a", "k", " ", "A", "v", "e", " ">>, <<" ">>, <<>>}],
       [license_col |-> {<<"O", "N", "-", "1", "0", "0", "1">>},
        address_col |-> Fillers(LARGE_ADDRESS_SET - 1) \cup {<<"1", "2", " ", "M", "a", "i", "n", " ", "S", "t">>}],
       [license_col |-> {},
        address_col |-> Fillers(LARGE_ADDRESS_SET) \cup {<<"1", "2", " ", "M", "a", "i", "n", " ", "S", "t">>}] >>

(***************************************************************************)
(* State.                                                                  *)
(***************************************************************************)
VARIABLES
    \* the existing-data provider: the sheet, and what the Deduplicator was given
    sheet,                  \* which of Sheets the spreadsheet holds
    sheets_manager,         \* "none" (None) or "sheets" (a SheetsManager)
    license_queries,        \* calls of get_existing_license_numbers so far
    address_queries,        \* calls of get_existing_addresses so far
    license_outcome,        \* how the licence query ended: "none", "ok", "caught", "raised"
    address_outcome,        \* the same for the address query
    \* the Deduplicator instance
    _existing_licenses, _existing_addresses, _initialized,
    \* one call of remove_duplicates
    batch,                  \* the batch the caller holds
    calls,                  \* calls of remove_duplicates begun so far
    pc,                     \* "idle" or "loop"
    records,                \* the argument
    idx,                    \* position of the loop in records
    unique_records, seen_licenses, seen_addresses, seen_names_addresses, duplicates,
    returned,               \* the values the last call returned to its caller, by name
    logged,                 \* the duplicate statistics the last call wrote to the log
    \* scoring of one record
    thresholds,             \* config.CRITICAL_THRESHOLD, HIGH_THRESHOLD, MEDIUM_THRESHOLD
    analyzer,               \* the scorer main() chose: "Scorer" or "ClaudeAnalyzer"
    enabled,                \* ClaudeAnalyzer.enabled
    project,                \* the record handed to the scorer, a dict
    response,               \* what the AI call of score_project came back with
    scored,                 \* whether the scorer has returned
    \* one call of batch_score
    projects,               \* the list handed to batch_score; its dicts are scored in place
    batch_pc,               \* "idle", "loop" or "done"
    position,               \* index of the record the loop is at
    results,                \* the local list of scored records
    score_distribution,     \* the local count of records per priority
    attempts,               \* per record handled, what its AI call came back with
    scored_records,         \* the list batch_score returned to main()
    \* one call of normalize_record and one more on its result
    today,                  \* what get_today() returned to the last call
    raw_record,             \* the record handed to normalize_record
    normalized,             \* normalize_record(raw_record)
    renormalized,           \* normalize_record(normalized)
    norm_pc,                \* "idle", "raw", "once", "twice" or "raised"
    \* one call of validate_record
    candidate,              \* the record handed to validate_record
    candidate_type,         \* its record_type argument
    validation,             \* the pair returned: is_valid and errors
    val_pc,                 \* "idle", "called", "returned" or "raised"
    \* one call of process_records
    raw_records,            \* the list handed to process_records
    record_type,            \* its record_type argument
    proc_pc,                \* "none", "idle", "loop" or "returned" ("raised": an exception left the call)
    proc_i,                 \* position of the loop in raw_records
    processed, errors,      \* the two local lists
    dates_read,             \* what get_today() returned, per record handled
    returned_processed,     \* the list process_records returned
    \* calls of dedupe_within_batch, each on the list the one before returned
    within_batch,           \* the batch the caller holds
    within_results,         \* the lists the calls returned, in order
    within_pc,              \* "idle", "loop" or "returned"
    within_records,         \* the argument
    within_idx,             \* position of the loop in the argument
    within_unique_records,  \* the local list unique_records
    seen_ids,               \* the local set
    \* what a run of main() is configured with
    pushplus_enabled,       \* the manager holds a PushPlusNotifier that is enabled
    dingtalk_enabled,       \* the same for the DingTalkNotifier
    ENABLE_INSTANT_ALERTS,  \* config.ENABLE_INSTANT_ALERTS
    max_instant_per_hour,   \* config.MAX_INSTANT_ALERTS_PER_HOUR, as the manager holds it
    sheets,                 \* main() holds a SheetsManager (FALSE: None)
    MAX_RECORDS_PER_RUN,    \* config.MAX_RECORDS_PER_RUN
    \* the NotificationManager
    instant_alerts_count,
    notify_log,             \* the messages handed to the channels and the resets, in order
    notify_result,          \* what the last call on the manager returned
    \* runs of main()
    main_pc,                \* "start", "fetched", "unique", "scored", "saved", "alerted", "done", "error"
    all_records,
    main_unique_records,    \* main()'s unique_records
    main_scored_records,    \* main()'s scored_records
    summaries,              \* the summary_data of the calls of send_daily_summary
    daily_stats,            \* main()'s stats
    store,                  \* the rows appended to the three sheets of the spreadsheet
    runs                    \* the number of the run

dedupVars == <<<<sheet, sheets_manager, license_queries, address_queries,
                 license_outcome, address_outcome>>,
               <<_existing_licenses, _existing_addresses, _initialized>>,
               batch, calls, pc, records, idx, unique_records, seen_licenses,
               seen_addresses, seen_names_addresses, duplicates, returned, logged>>
scoreVars == <<thresholds, analyzer, enabled, project, response, scored>>
batchVars == <<projects, batch_pc, position, results, score_distribution, attempts,
               scored_records>>
processorVars == <<<<today, raw_record, normalized, renormalized, norm_pc>>,
                   <<candidate, candidate_type, validation, val_pc>>,
                   <<raw_records, record_type, proc_pc, proc_i, processed, errors,
                     dates_read, returned_processed>>>>
withinVars == <<within_batch, within_results, within_pc, within_records, within_idx,
                within_unique_records, seen_ids>>
configVars == <<pushplus_enabled, dingtalk_enabled, ENABLE_INSTANT_ALERTS,
                max_instant_per_hour, sheets, MAX_RECORDS_PER_RUN>>
mainVars == <<configVars, instant_alerts_count, notify_log, notify_result, main_pc,
              all_records, main_unique_records, main_scored_records, summaries,
              daily_stats, store, runs>>
vars == <<dedupVars, scoreVars, batchVars, processorVars, withinVars, mainVars>>
\* what the actions of one component leave alone
outsideDedup == <<scoreVars, batchVars, processorVars, withinVars, mainVars>>
outsideScore == <<dedupVars, batchVars, processorVars, withinVars, mainVars>>
outsideBatch == <<dedupVars, scoreVars, processorVars, withinVars, mainVars>>
outsideProcessor == <<dedupVars, scoreVars, batchVars, withinVars, mainVars>>
outsideWithin == <<dedupVars, scoreVars, batchVars, processorVars, mainVars>>
outsideMain == <<dedupVars, scoreVars, batchVars, processorVars, withinVars>>

(***************************************************************************)
(* SheetsManager.get_existing_license_numbers / get_existing_addresses.    *)
(* outcome "ok": the column was read; "caught": reading it failed and the  *)
(* method's own except returned set().                                     *)
(***************************************************************************)
\* set(ln for ln in license_column if ln), for each sheet of the model
LicenseNumbersOf ==
    [s \in 1..Len(Sheets) |-> {ln \in Sheets[s].license_col : ln # <<>>}]
\* set(addr.lower().strip() for addr in address_column if addr)
AddressesOf ==
    [s \in 1..Len(Sheets) |->
        {strip(lower(addr)) : addr \in {c \in Sheets[s].address_col : c # <<>>}}]

\* the columns hold the cells of the sheet and of the rows appended since
get_existing_license_numbers(outcome) ==
    IF outcome = "ok"
    THEN LicenseNumbersOf[sheet]
         \cup ({store.new_projects[i].license_number :
                   i \in 1..Len(store.new_projects)} \ {<<>>})
    ELSE {}

get_existing_addresses(outcome) ==
    IF outcome = "ok"
    THEN AddressesOf[sheet]
         \cup {strip(lower(store.new_projects[i].address)) :
                  i \in {j \in 1..Len(store.new_projects) :
                            store.new_projects[j].address # <<>>}}
    ELSE {}

(***************************************************************************)
(* Deduplicator._load_existing_data.  lo and ao are the outcomes of the    *)
(* two provider calls; "raised" is an exception that leaves the provider   *)
(* and is caught by _load_existing_data's own except.                      *)
(***************************************************************************)
\* _load_existing_data with "self._initialized = True" missing from the except
\* branch: a failed attempt is tried again by the next call
_load_existing_data_retry(lo, ao) ==
    IF ~(~_initialized /\ sheets_manager # "none")
    THEN /\ lo = "none" /\ ao = "none"
         /\ UNCHANGED <<<<_existing_licenses, _existing_addresses, _initialized>>, license_queries, address_queries,
                        license_outcome, address_outcome>>
    ELSE /\ lo \in {"ok", "caught", "raised"}
         /\ license_queries' = license_queries + 1
         /\ license_outcome' = lo
         /\ IF lo = "raised"
            THEN /\ ao = "none"
                 /\ UNCHANGED <<_existing_licenses, _existing_addresses, address_queries>>
                 /\ address_outcome' = "none"
            ELSE /\ ao \in {"ok", "caught", "raised"}
                 /\ _existing_licenses' = get_existing_license_numbers(lo)
                 /\ address_queries' = address_queries + 1
                 /\ address_outcome' = ao
                 /\ IF ao = "raised"
                    THEN UNCHANGED _existing_addresses
                    ELSE _existing_addresses' = get_existing_addresses(ao)
         /\ _initialized' = (lo # "raised" /\ ao # "raised")

_load_existing_data(lo, ao) ==
    IF ~(~_initialized /\ sheets_manager # "none")
    THEN /\ lo = "none" /\ ao = "none"
         /\ UNCHANGED <<<<_existing_licenses, _existing_addresses, _initialized>>, license_queries, address_queries,
                        license_outcome, address_outcome>>
    ELSE /\ lo \in {"ok", "caught", "raised"}
         /\ license_queries' = license_queries + 1
         /\ license_outcome' = lo
         /\ IF lo = "raised"
            THEN /\ ao = "none"
                 /\ UNCHANGED <<_existing_licenses, _existing_addresses, address_queries>>
                 /\ address_outcome' = "none"
            ELSE /\ ao \in {"ok", "caught", "raised"}
                 /\ _existing_licenses' = get_existing_license_numbers(lo)
                 /\ address_queries' = address_queries + 1
                 /\ address_outcome' = ao
                 /\ IF ao = "raised"
                    THEN UNCHANGED _existing_addresses
                    ELSE _existing_addresses' = get_existing_addresses(ao)
         /\ _initialized' = TRUE

(***************************************************************************)
(* Deduplicator._is_similar_address.                                       *)
(***************************************************************************)
\* Every address a seen set of the model can hold, and every address of a record.
RecordAddresses == {strip(lower(Get(r, "address"))) : r \in RecordUniverse}
SeenSpace == UNION {AddressesOf[s] : s \in 1..Len(Sheets)} \cup RecordAddresses
\* process_and_sort and token_sort_ratio, computed once for the strings and the
\* pairs the model can compare.
RatioMemo ==
    LET SortedMemo == [s \in SeenSpace |-> process_and_sort(s)]
    IN  [address \in RecordAddresses |->
            [existing \in SeenSpace |->
                ratio(SortedMemo[address], SortedMemo[existing])]]
similarity(address, existing) ==
    IF address \in RecordAddresses /\ existing \in SeenSpace
    THEN RatioMemo[address][existing]
    ELSE token_sort_ratio(address, existing)
\* the addresses at or above the threshold of each record address
SimilarMemo ==
    [address \in RecordAddresses |->
        {existing \in SeenSpace :
            RatioMemo[address][existing] >= ADDRESS_SIMILARITY_THRESHOLD}]

\* _is_similar_address comparing with "similarity > threshold"
_is_similar_address_strict(address, existing_addresses) ==
    IF address = <<>> \/ existing_addresses = {} THEN FALSE
    ELSE IF Cardinality(existing_addresses) > LARGE_ADDRESS_SET
         THEN address \in existing_addresses
         ELSE \E existing \in SimilarMemo[address] :
                 /\ existing \in existing_addresses
                 /\ RatioMemo[address][existing] > ADDRESS_SIMILARITY_THRESHOLD

\* _is_similar_address leaving the fuzzy comparison out from 1,000 addresses on
\* ("len(existing_addresses) >= 1000")
_is_similar_address_early_guard(address, existing_addresses) ==
    IF address = <<>> \/ existing_addresses = {} THEN FALSE
    ELSE IF Cardinality(existing_addresses) >= LARGE_ADDRESS_SET
         THEN address \in existing_addresses
         ELSE \E existing \in SimilarMemo[address] : existing \in existing_addresses

\* the addresses at similarity >= 90 of each record address, as the claims say it
NearMemo ==
    [address \in RecordAddresses |->
        {existing \in SeenSpace : RatioMemo[address][existing] >= 90}]

\* "for existing in addresses_to_check: if similarity >= threshold: return True".
\* The seen sets hold addresses of SeenSpace only (SeenSpaceOK), so the loop finds
\* an address exactly when one of SimilarMemo[address] is in existing_addresses.
_is_similar_address(address, existing_addresses) ==
    IF address = <<>> \/ existing_addresses = {} THEN FALSE
    ELSE IF Cardinality(existing_addresses) > LARGE_ADDRESS_SET
         THEN address \in existing_addresses
         ELSE \E existing \in SimilarMemo[address] : existing \in existing_addresses

(***************************************************************************)
(* Deduplicator.remove_duplicates.                                         *)
(***************************************************************************)
NoDuplicates == [license |-> 0, name_address |-> 0, fuzzy_address |-> 0]

\* the licence number taken without .strip()
license_number_of_raw(record) == Get(record, "license_number")
license_number_of(record) == strip(Get(record, "license_number"))
address_of(record) == strip(lower(Get(record, "address")))
\* the key with the record's priority in it
name_address_key_with_priority(record) ==
    strip(lower(Get(record, "name"))) \o <<"|">> \o address_of(record)
    \o <<"|", IF "priority" \in DOMAIN record THEN record["priority"] ELSE "">>
name_address_key(record) == strip(lower(Get(record, "name"))) \o <<"|">> \o address_of(record)

\* if not records: return []
RemoveDuplicatesEmpty(maxCalls) ==
    /\ pc = "idle"
    /\ calls < maxCalls
    /\ calls' = calls + 1
    /\ records' = <<>>
    /\ returned' = [unique_records |-> <<>>]
    /\ UNCHANGED <<<<sheet, sheets_manager, license_queries, address_queries, license_outcome, address_outcome>>, <<_existing_licenses, _existing_addresses, _initialized>>, batch, pc, idx, unique_records,
                   seen_licenses, seen_addresses, seen_names_addresses, duplicates,
                   logged>>
    /\ UNCHANGED outsideDedup

\* lines 71-88: the seed is loaded and the locals are set up
RemoveDuplicatesBegin(maxCalls, outcomes) ==
    /\ pc = "idle"
    /\ calls < maxCalls
    /\ batch # <<>>
    /\ calls' = calls + 1
    /\ records' = batch
    /\ \E lo, ao \in outcomes \cup {"none"} : _load_existing_data(lo, ao)
    /\ unique_records' = <<>>
    /\ seen_licenses' = _existing_licenses'
    /\ seen_addresses' = _existing_addresses'
    /\ seen_names_addresses' = {}
    /\ duplicates' = NoDuplicates
    /\ idx' = 1
    /\ pc' = "loop"
    /\ UNCHANGED <<sheet, sheets_manager, batch, returned, logged>>
    /\ UNCHANGED outsideDedup

\* every duplicate counted under 'license'
DropAsLicense(kind) ==
    /\ duplicates' = [duplicates EXCEPT !.license = @ + 1]
    /\ UNCHANGED unique_records

\* duplicates[kind] += 1; continue
DropAs(kind) ==
    /\ duplicates' = [duplicates EXCEPT ![kind] = @ + 1]
    /\ UNCHANGED unique_records

\* the kept record appended with its address cleaned
KeepCleaned(record) ==
    /\ unique_records' = Append(unique_records, [record EXCEPT !.address = address_of(record)])
    /\ UNCHANGED duplicates

\* unique_records.append(record)
Keep(record) ==
    /\ unique_records' = Append(unique_records, record)
    /\ UNCHANGED duplicates

\* one pass of "for record in records"
LoopStep ==
    /\ pc = "loop"
    /\ idx <= Len(records)
    /\ LET record == records[idx]
           license_number == license_number_of(record)
           address == address_of(record)
       IN  IF license_number # <<>> /\ license_number \in seen_licenses
           THEN /\ DropAs("license")
                /\ UNCHANGED <<seen_licenses, seen_names_addresses, seen_addresses>>
           ELSE /\ seen_licenses' = IF license_number # <<>>
                                    THEN seen_licenses \cup {license_number}
                                    ELSE seen_licenses
                /\ IF name_address_key(record) \in seen_names_addresses
                   THEN /\ DropAs("name_address")
                        /\ UNCHANGED <<seen_names_addresses, seen_addresses>>
                   ELSE /\ seen_names_addresses' =
                               seen_names_addresses \cup {name_address_key(record)}
                        /\ IF address # <<>> /\ _is_similar_address(address, seen_addresses)
                           THEN /\ DropAs("fuzzy_address")
                                /\ UNCHANGED seen_addresses
                           ELSE /\ seen_addresses' = IF address # <<>>
                                                     THEN seen_addresses \cup {address}
                                                     ELSE seen_addresses
                                /\ Keep(record)
    /\ idx' = idx + 1
    /\ UNCHANGED <<<<sheet, sheets_manager, license_queries, address_queries, license_outcome, address_outcome>>, <<_existing_licenses, _existing_addresses, _initialized>>, batch, calls, pc, records, returned, logged>>
    /\ UNCHANGED outsideDedup

\* a call whose seen sets are the instance's own sets, not copies of them
RemoveDuplicatesReturnShared ==
    /\ pc = "loop"
    /\ idx > Len(records)
    /\ logged' = duplicates
    /\ returned' = [unique_records |-> unique_records]
    /\ pc' = "idle"
    /\ _existing_licenses' = seen_licenses
    /\ _existing_addresses' = seen_addresses
    /\ UNCHANGED <<<<sheet, sheets_manager, license_queries, address_queries, license_outcome, address_outcome>>, _initialized, batch, calls, records, idx,
                   unique_records, seen_licenses, seen_addresses,
                   seen_names_addresses, duplicates>>
    /\ UNCHANGED outsideDedup

\* lines 120-130: the statistics go to the log, the list to the caller
RemoveDuplicatesReturn ==
    /\ pc = "loop"
    /\ idx > Len(records)
    /\ logged' = duplicates
    /\ returned' = [unique_records |-> unique_records]
    /\ pc' = "idle"
    /\ UNCHANGED <<<<sheet, sheets_manager, license_queries, address_queries, license_outcome, address_outcome>>, <<_existing_licenses, _existing_addresses, _initialized>>, batch, calls, records, idx,
                   unique_records, seen_licenses, seen_addresses,
                   seen_names_addresses, duplicates>>
    /\ UNCHANGED outsideDedup

(***************************************************************************)
(* Scorer (analyzers/scorer.py).                                           *)
(***************************************************************************)
\* config.py: the defaults of the three thresholds the priority is cut at
CRITICAL_THRESHOLD == 90
HIGH_THRESHOLD == 85
MEDIUM_THRESHOLD == 70
\* the thresholds are read from the environment: the defaults, and a lower set
Configs ==
    { [CRITICAL_THRESHOLD |-> CRITICAL_THRESHOLD, HIGH_THRESHOLD |-> HIGH_THRESHOLD,
       MEDIUM_THRESHOLD |-> MEDIUM_THRESHOLD],
      [CRITICAL_THRESHOLD |-> 80, HIGH_THRESHOLD |-> 60, MEDIUM_THRESHOLD |-> 40] }

\* k in s, for two str
Contains(s, k) ==
    \E i \in 0..(Len(s) - Len(k)) : SubSeq(s, i + 1, i + Len(k)) = k
\* any(k in s for k in keys)
AnyIn(keys, s) == \E k \in keys : Contains(s, k)

\* the regional-indicator pairs of the two flags, one element per code point
FlagCanada == <<"U+1F1E8", "U+1F1E6">>
FlagAustralia == <<"U+1F1E6", "U+1F1FA">>

CANADA_CITY_SCORES ==
    (<<"t", "o", "r", "o", "n", "t", "o">> :> 40) @@ (<<"v", "a", "n", "c", "o", "u", "v", "e", "r">> :> 40) @@ (<<"m", "o", "n", "t", "r", "e", "a", "l">> :> 40) @@
    (<<"c", "a", "l", "g", "a", "r", "y">> :> 35) @@ (<<"e", "d", "m", "o", "n", "t", "o", "n">> :> 35) @@ (<<"o", "t", "t", "a", "w", "a">> :> 35) @@
    (<<"w", "i", "n", "n", "i", "p", "e", "g">> :> 35) @@
    (<<"q", "u", "e", "b", "e", "c", " ", "c", "i", "t", "y">> :> 30) @@ (<<"h", "a", "m", "i", "l", "t", "o", "n">> :> 30) @@ (<<"k", "i", "t", "c", "h", "e", "n", "e", "r">> :> 30) @@
    (<<"l", "o", "n", "d", "o", "n">> :> 30) @@ (<<"v", "i", "c", "t", "o", "r", "i", "a">> :> 30) @@ (<<"h", "a", "l", "i", "f", "a", "x">> :> 30) @@
    (<<"o", "s", "h", "a", "w", "a">> :> 25) @@ (<<"w", "i", "n", "d", "s", "o", "r">> :> 25) @@ (<<"s", "a", "s", "k", "a", "t", "o", "o", "n">> :> 25) @@
    (<<"r", "e", "g", "i", "n", "a">> :> 25) @@ (<<"s", "t", ".", " ", "c", "a", "t", "h", "a", "r", "i", "n", "e", "s">> :> 25) @@ (<<"k", "e", "l", "o", "w", "n", "a">> :> 25) @@
    (<<"b", "a", "r", "r", "i", "e">> :> 25)

AUSTRALIA_CITY_SCORES ==
    (<<"s", "y", "d", "n", "e", "y">> :> 40) @@ (<<"m", "e", "l", "b", "o", "u", "r", "n", "e">> :> 40) @@ (<<"b", "r", "i", "s", "b", "a", "n", "e">> :> 40) @@
    (<<"p", "e", "r", "t", "h">> :> 35) @@ (<<"a", "d", "e", "l", "a", "i", "d", "e">> :> 35) @@ (<<"c", "a", "n", "b", "e", "r", "r", "a">> :> 35) @@
    (<<"g", "o", "l", "d", " ", "c", "o", "a", "s", "t">> :> 30) @@ (<<"n", "e", "w", "c", "a", "s", "t", "l", "e">> :> 30) @@ (<<"s", "u", "n", "s", "h", "i", "n", "e", " ", "c", "o", "a", "s", "t">> :> 30) @@
    (<<"w", "o", "l", "l", "o", "n", "g", "o", "n", "g">> :> 30) @@ (<<"h", "o", "b", "a", "r", "t">> :> 30) @@ (<<"g", "e", "e", "l", "o", "n", "g">> :> 30) @@
    (<<"t", "o", "w", "n", "s", "v", "i", "l", "l", "e">> :> 25) @@ (<<"c", "a", "i", "r", "n", "s">> :> 25) @@ (<<"d", "a", "r", "w", "i", "n">> :> 25) @@
    (<<"t", "o", "o", "w", "o", "o", "m", "b", "a">> :> 25) @@ (<<"b", "a", "l", "l", "a", "r", "a", "t">> :> 25) @@ (<<"b", "e", "n", "d", "i", "g", "o">> :> 25)

\* The capacity of a record is None, an int or a str.
NoCapacity == [type |-> "None", int |-> 0, str |-> <<>>]
IntCapacity(n) == [type |-> "int", int |-> n, str |-> <<>>]
StrCapacity(s) == [type |-> "str", int |-> 0, str |-> s]

\* the value of a run of decimal digits
RECURSIVE DigitsValue(_)
DigitsValue(d) ==
    IF d = <<>> THEN 0
    ELSE 10 * DigitsValue(SubSeq(d, 1, Len(d) - 1)) + (IndexOf(DigitChars, d[Len(d)]) - 1)

\* int(s) of a str: surrounding whitespace and one sign are accepted, then
\* digits, with single underscores between them; anything else is a ValueError
int_of_str(s) ==
    LET t == strip(s)
        signed == t # <<>> /\ t[1] \in {"+", "-"}
        body == IF signed THEN Tail(t) ELSE t
        IsDigitChar(c) == InSeq(DigitChars, c)
        ok == /\ body # <<>>
              /\ \A i \in 1..Len(body) :
                    \/ IsDigitChar(body[i])
                    \/ /\ body[i] = "_" /\ 1 < i /\ i < Len(body)
                       /\ IsDigitChar(body[i - 1]) /\ IsDigitChar(body[i + 1])
        digits == SelectSeq(body, IsDigitChar)
    IN  [ok |-> ok,
         value |-> IF ~ok THEN 0
                   ELSE IF signed /\ t[1] = "-" THEN 0 - DigitsValue(digits)
                   ELSE DigitsValue(digits)]

\* the tiers with the boundaries left to the tier below
capacity_tier_exclusive(capacity) ==
    IF capacity > 80 THEN 30
    ELSE IF capacity > 60 THEN 25
    ELSE IF capacity > 40 THEN 20
    ELSE IF capacity > 20 THEN 15
    ELSE 10

\* the tiers of _score_capacity
capacity_tier(capacity) ==
    IF capacity >= 80 THEN 30
    ELSE IF capacity >= 60 THEN 25
    ELSE IF capacity >= 40 THEN 20
    ELSE IF capacity >= 20 THEN 15
    ELSE 10

_score_capacity(capacity) ==
    IF capacity.type = "None" THEN 15
    ELSE IF capacity.type = "int" THEN capacity_tier(capacity.int)
    ELSE LET parsed == int_of_str(capacity.str)
         IN  IF parsed.ok THEN capacity_tier(parsed.value) ELSE 15

_score_location(city, country) ==
    IF city = <<>> THEN 20
    ELSE LET city_lower == strip(lower(city))
             country_lower == lower(country)
             \* d.get(key) followed by "if score: return score", else 20
             city_score(table) ==
                 IF city_lower \in DOMAIN table /\ table[city_lower] # 0
                 THEN table[city_lower] ELSE 20
         IN  IF Contains(country_lower, <<"c", "a", "n", "a", "d", "a">>) \/ Contains(country_lower, FlagCanada)
             THEN city_score(CANADA_CITY_SCORES)
             ELSE IF \/ Contains(country_lower, <<"a", "u", "s", "t", "r", "a", "l", "i", "a">>)
                     \/ Contains(country_lower, FlagAustralia)
                  THEN city_score(AUSTRALIA_CITY_SCORES)
                  ELSE 20

_score_stage(project_type, license_status) ==
    LET project_type_lower == lower(project_type)
        status_lower == lower(license_status)
    IN  IF AnyIn({<<"U+65B0", "U+5EFA">>, <<"n", "e", "w">>, <<"U+65B0", "U+53D1">>}, project_type_lower) THEN 30
        ELSE IF AnyIn({<<"U+65B0", "U+53D1">>, <<"n", "e", "w">>, <<"i", "s", "s", "u", "e", "d">>}, status_lower) THEN 30
        ELSE IF AnyIn({<<"U+6269", "U+5EFA">>, <<"e", "x", "p", "a", "n", "s", "i", "o", "n">>, <<"e", "x", "p", "a", "n", "d">>}, project_type_lower) THEN 25
        ELSE IF AnyIn({<<"U+6269", "U+5BB9">>, <<"e", "x", "p", "a", "n", "s", "i", "o", "n">>}, status_lower) THEN 25
        ELSE IF AnyIn({<<"U+53D8", "U+66F4">>, <<"c", "h", "a", "n", "g", "e">>, <<"a", "m", "e", "n", "d", "m", "e", "n", "t">>}, status_lower) THEN 20
        ELSE IF AnyIn({<<"U+7EED", "U+671F">>, <<"r", "e", "n", "e", "w", "a", "l">>, <<"r", "e", "n", "e", "w">>}, status_lower) THEN 15
        ELSE IF AnyIn({<<"U+4EA4", "U+6613">>, <<"s", "a", "l", "e">>, <<"U+51FA", "U+552E">>}, project_type_lower) THEN 25
        ELSE IF AnyIn({<<"U+62DB", "U+6807">>, <<"t", "e", "n", "d", "e", "r">>, <<"r", "f", "p">>}, project_type_lower) THEN 25
        ELSE 20

\* the bonus with the second test an "elif": at most one of the two is given
_calculate_bonus_exclusive(record) ==
    LET notes == lower(Get(record, "notes"))
        name == lower(Get(record, "name"))
        government == \E k \in {<<"g", "o", "v", "e", "r", "n", "m", "e", "n", "t">>, <<"p", "u", "b", "l", "i", "c">>, <<"m", "u", "n", "i", "c", "i", "p", "a", "l">>, <<"U+653F", "U+5E9C">>} :
                          Contains(name, k) \/ Contains(notes, k)
        community == \E k \in {<<"s", "c", "h", "o", "o", "l">>, <<"c", "o", "m", "m", "u", "n", "i", "t", "y">>, <<"U+5B66", "U+6821">>, <<"U+793E", "U+533A">>} :
                          Contains(name, k) \/ Contains(notes, k)
    IN  IF government THEN 5 ELSE IF community THEN 5 ELSE 0

_calculate_bonus(record) ==
    LET notes == lower(Get(record, "notes"))
        name == lower(Get(record, "name"))
        government == \E k \in {<<"g", "o", "v", "e", "r", "n", "m", "e", "n", "t">>, <<"p", "u", "b", "l", "i", "c">>, <<"m", "u", "n", "i", "c", "i", "p", "a", "l">>, <<"U+653F", "U+5E9C">>} :
                          Contains(name, k) \/ Contains(notes, k)
        community == \E k \in {<<"s", "c", "h", "o", "o", "l">>, <<"c", "o", "m", "m", "u", "n", "i", "t", "y">>, <<"U+5B66", "U+6821">>, <<"U+793E", "U+533A">>} :
                          Contains(name, k) \/ Contains(notes, k)
    IN  (IF government THEN 5 ELSE 0) + (IF community THEN 5 ELSE 0)

_determine_priority(score) ==
    IF score >= thresholds.CRITICAL_THRESHOLD THEN "Critical"
    ELSE IF score >= thresholds.HIGH_THRESHOLD THEN "High"
    ELSE IF score >= thresholds.MEDIUM_THRESHOLD THEN "Medium"
    ELSE "Low"

\* Scorer.score_record: the record with the six scoring fields written
score_record(record) ==
    LET capacity_score ==
            _score_capacity(IF "capacity" \in DOMAIN record THEN record["capacity"]
                            ELSE NoCapacity)
        location_score == _score_location(Get(record, "city"), Get(record, "country"))
        stage_score == _score_stage(Get(record, "type"), Get(record, "license_status"))
        \* total_score = min(100, total_score + bonus)
        total_score ==
            Min(100, capacity_score + location_score + stage_score
                     + _calculate_bonus(record))
    IN  [key \in DOMAIN record \cup {"ai_score", "capacity_score", "location_score",
                                     "stage_score", "priority", "scoring_method"} |->
            CASE key = "ai_score" -> total_score
              [] key = "capacity_score" -> capacity_score
              [] key = "location_score" -> location_score
              [] key = "stage_score" -> stage_score
              [] key = "priority" -> _determine_priority(total_score)
              [] key = "scoring_method" -> "rule_based"
              [] OTHER -> record[key]]

(***************************************************************************)
(* ClaudeAnalyzer.score_project (analyzers/claude_analyzer.py).            *)
(* What the AI call comes back with: the call raised ("error"), the text   *)
(* is not JSON ("invalid_json"), the JSON is not an object ("not_dict"),   *)
(* or it is an object ("dict") whose 'score' is absent, an int, NaN, a     *)
(* string or null, and whose 'priority' is absent or one of the four.      *)
(***************************************************************************)
Reply(kind, score_type, score, priority, reasoning) ==
    [kind |-> kind, score_type |-> score_type, score |-> score, priority |-> priority,
     reasoning |-> reasoning, recommendation |-> <<>>]
NoResponse == Reply("none", "missing", 0, "missing", <<>>)
Responses ==
    { Reply("error", "missing", 0, "missing", <<>>),
      Reply("invalid_json", "missing", 0, "missing", <<>>),
      Reply("not_dict", "missing", 0, "missing", <<>>),
      Reply("dict", "missing", 0, "missing", <<>>),
      Reply("dict", "null", 0, "High", <<>>),
      Reply("dict", "str", 0, "Critical", <<>>),
      Reply("dict", "nan", 0, "Low", <<>>) }
    \cup { Reply("dict", "int", s, "Low", <<"o", "k">>) :
             s \in {-20, 0, 39, 40, 69, 70, 84, 85, 89, 90, 100, 150} }
    \cup { Reply("dict", "int", 95, "missing", <<>>),
           Reply("dict", "int", 10, "Critical", <<"o", "k">>) }

\* result.get('score', 50) is a number min() and max() accept

\* min(100, score) only
clamp_score_upper(r) ==
    IF r.score_type = "missing" THEN Min(100, 50)
    ELSE IF r.score_type = "nan" THEN 100
    ELSE Min(100, r.score)

\* max(0, min(100, result.get('score', 50))); every comparison with NaN is
\* false, so min(100, NaN) is 100
clamp_score(r) ==
    IF r.score_type = "missing" THEN Max(0, Min(100, 50))
    ELSE IF r.score_type = "nan" THEN Max(0, 100)
    ELSE Max(0, Min(100, r.score))

\* the priority of the response kept when it has one
result_priority_supplied(r, score) ==
    IF r.priority # "missing" THEN r.priority
    ELSE IF score >= thresholds.CRITICAL_THRESHOLD THEN "Critical"
    ELSE IF score >= thresholds.HIGH_THRESHOLD THEN "High"
    ELSE IF score >= thresholds.MEDIUM_THRESHOLD THEN "Medium"
    ELSE "Low"

\* lines 70-79: result['priority'] is overwritten from the score
result_priority(r, score) ==
    IF score >= thresholds.CRITICAL_THRESHOLD THEN "Critical"
    ELSE IF score >= thresholds.HIGH_THRESHOLD THEN "High"
    ELSE IF score >= thresholds.MEDIUM_THRESHOLD THEN "Medium"
    ELSE "Low"

\* score_project with the AI enabled and the AI call ending as r
score_project(record, r) ==
    IF r.kind # "dict" \/ r.score_type \notin {"missing", "int", "nan"}
    THEN score_record(record)
    ELSE LET score == clamp_score(r)
         IN  [key \in DOMAIN record \cup {"ai_score", "priority", "ai_reasoning",
                                          "ai_recommendation", "scoring_method"} |->
                 CASE key = "ai_score" -> score
                   [] key = "priority" -> result_priority(r, score)
                   [] key = "ai_reasoning" -> r.reasoning
                   [] key = "ai_recommendation" -> r.recommendation
                   [] key = "scoring_method" -> "claude_ai"
                   [] OTHER -> record[key]]

\* main() scores with a Scorer
ScoreRecord ==
    /\ analyzer = "Scorer"
    /\ ~scored
    /\ project' = score_record(project)
    /\ scored' = TRUE
    /\ UNCHANGED <<thresholds, analyzer, enabled, response>>
    /\ UNCHANGED outsideScore

\* main() scores with a ClaudeAnalyzer
ScoreProject ==
    /\ analyzer = "ClaudeAnalyzer"
    /\ ~scored
    /\ IF ~enabled
       THEN /\ project' = score_record(project)
            /\ UNCHANGED response
       ELSE \E r \in Responses :
               /\ response' = r
               /\ project' = score_project(project, r)
    /\ scored' = TRUE
    /\ UNCHANGED <<thresholds, analyzer, enabled>>
    /\ UNCHANGED outsideScore

\* The records the scorers are handed: DataProcessor.normalize_record has set
\* ai_score to 50 and priority to 'Medium' where the source gave none.
Project(capacity, location, stage, description) ==
    [name |-> description[1], city |-> location[1], country |-> location[2],
     capacity |-> capacity, license_status |-> stage[2], notes |-> description[2],
     type |-> stage[1], ai_score |-> 50, priority |-> "Medium",
     ai_reasoning |-> <<>>, ai_recommendation |-> <<>>]
Projects ==
    LET
        Capacities ==
            { NoCapacity, IntCapacity(-3), IntCapacity(0), IntCapacity(19), IntCapacity(20),
              IntCapacity(39),
              IntCapacity(40), IntCapacity(59), IntCapacity(60), IntCapacity(79),
              IntCapacity(80), StrCapacity(<<" ", "8", "5", " ">>), StrCapacity(<<"n", "/", "a">>) }
        Locations ==
            { <<<<>>, <<"C", "a", "n", "a", "d", "a">>>>,
              <<<<"T", "o", "r", "o", "n", "t", "o">>, <<"C", "a", "n", "a", "d", "a">>>>,
              <<<<" ", "c", "a", "l", "g", "a", "r", "y", " ">>, FlagCanada \o <<" ", "c", "a", "n", "a", "d", "a">>>>,
              <<<<"L", "o", "n", "d", "o", "n">>, FlagCanada>>,
              <<<<"S", "t", ".", " ", "C", "a", "t", "h", "a", "r", "i", "n", "e", "s">>, <<"C", "A", "N", "A", "D", "A">>>>,
              <<<<"S", "y", "d", "n", "e", "y">>, <<"A", "u", "s", "t", "r", "a", "l", "i", "a">>>>,
              <<<<"P", "e", "r", "t", "h">>, FlagAustralia>>,
              <<<<"T", "o", "r", "o", "n", "t", "o">>, <<"A", "u", "s", "t", "r", "a", "l", "i", "a">>>>,
              <<<<"T", "o", "r", "o", "n", "t", "o">>, <<>>>>,
              <<<<"S", "p", "r", "i", "n", "g", "f", "i", "e", "l", "d">>, <<"U", "S", "A">>>> }
        Stages ==
            { <<<<"U+65B0", "U+5EFA">>, <<>>>>,
              <<<<>>, <<"I", "s", "s", "u", "e", "d">>>>,
              <<<<"E", "x", "p", "a", "n", "s", "i", "o", "n">>, <<>>>>,
              <<<<>>, <<"U+6269", "U+5BB9">>>>,
              <<<<>>, <<"A", "m", "e", "n", "d", "m", "e", "n", "t">>>>,
              <<<<>>, <<"U+7EED", "U+671F">>>>,
              <<<<>>, <<"R", "e", "n", "e", "w", "a", "l">>>>,
              <<<<"F", "o", "r", " ", "S", "a", "l", "e">>, <<>>>>,
              <<<<"T", "e", "n", "d", "e", "r">>, <<"A", "c", "t", "i", "v", "e">>>>,
              <<<<>>, <<>>>> }
        Descriptions ==
            { <<<<"K", "i", "d", "s">>, <<>>>>,
              <<<<"P", "u", "b", "l", "i", "c", " ", "S", "c", "h", "o", "o", "l", " ", "D", "a", "y", "c", "a", "r", "e">>, <<>>>>,
              <<<<"K", "i", "d", "s">>, <<"G", "o", "v", "e", "r", "n", "m", "e", "n", "t", " ", "f", "u", "n", "d", "e", "d">>>>,
              <<<<"U+793E", "U+533A", " ", "K", "i", "d", "s">>, <<>>>> }
    IN  { Project(c, l, s, d) :
            c \in Capacities, l \in Locations, s \in Stages, d \in Descriptions }

\* The records and the AI answers of the batch_score runs.
BatchProjects ==
    { Project(IntCapacity(80), <<<<"T", "o", "r", "o", "n", "t", "o">>, <<"C", "a", "n", "a", "d", "a">>>>, <<<<"U+65B0", "U+5EFA">>, <<>>>>,
              <<<<"P", "u", "b", "l", "i", "c", " ", "S", "c", "h", "o", "o", "l", " ", "D", "a", "y", "c", "a", "r", "e">>, <<>>>>),
      Project(IntCapacity(19), <<<<"S", "p", "r", "i", "n", "g", "f", "i", "e", "l", "d">>, <<"U", "S", "A">>>>, <<<<>>, <<"U+7EED", "U+671F">>>>,
              <<<<"K", "i", "d", "s">>, <<>>>>) }
BatchResponses ==
    { Reply("error", "missing", 0, "missing", <<>>),
      Reply("invalid_json", "missing", 0, "missing", <<>>),
      Reply("dict", "int", 95, "Low", <<"o", "k">>) }

(***************************************************************************)
(* batch_score of the two scorers (scorer.py 235-270,                      *)
(* claude_analyzer.py 143-182), as main() calls it on the chosen analyzer. *)
(***************************************************************************)
NoDistribution == [Critical |-> 0, High |-> 0, Medium |-> 0, Low |-> 0]

\* if not projects: return []
BatchScoreEmpty ==
    /\ batch_pc = "idle"
    /\ projects = <<>>
    /\ scored_records' = <<>>
    /\ batch_pc' = "done"
    /\ UNCHANGED <<projects, position, results, score_distribution, attempts>>
    /\ UNCHANGED outsideBatch

\* results = []; score_distribution = {...: 0}
BatchScoreBegin ==
    /\ batch_pc = "idle"
    /\ projects # <<>>
    /\ results' = <<>>
    /\ score_distribution' = NoDistribution
    /\ position' = 1
    /\ batch_pc' = "loop"
    /\ UNCHANGED <<projects, attempts, scored_records>>
    /\ UNCHANGED outsideBatch

\* a loop that keeps one dict for every result: each slot of the list holds
\* the record scored last
BatchScoreAppendShared(record, r) ==
    /\ projects' = [projects EXCEPT ![position] = record]
    /\ results' = [i \in 1..(Len(results) + 1) |-> record]
    /\ score_distribution' =
           [score_distribution EXCEPT ![record["priority"]] = @ + 1]
    /\ attempts' = Append(attempts, r)

\* the record at the loop's position scored in place, appended and counted
BatchScoreAppend(record, r) ==
    /\ projects' = [projects EXCEPT ![position] = record]
    /\ results' = Append(results, record)
    /\ score_distribution' =
           [score_distribution EXCEPT ![record["priority"]] = @ + 1]
    /\ attempts' = Append(attempts, r)

\* a loop that stops calling the AI once one of its calls has failed
BatchScoreStepKillSwitch ==
    /\ batch_pc = "loop"
    /\ position <= Len(projects)
    /\ IF \/ analyzer = "Scorer" \/ ~enabled
          \/ \E j \in 1..Len(attempts) : attempts[j].kind \in {"error", "invalid_json"}
       THEN BatchScoreAppend(score_record(projects[position]), NoResponse)
       ELSE \E r \in BatchResponses :
               BatchScoreAppend(score_project(projects[position], r), r)
    /\ position' = position + 1
    /\ UNCHANGED <<batch_pc, scored_records>>
    /\ UNCHANGED outsideBatch

\* one pass of the loop: score_record of a Scorer, score_project of a
\* ClaudeAnalyzer
BatchScoreStep ==
    /\ batch_pc = "loop"
    /\ position <= Len(projects)
    /\ IF analyzer = "Scorer" \/ ~enabled
       THEN BatchScoreAppend(score_record(projects[position]), NoResponse)
       ELSE \E r \in BatchResponses :
               BatchScoreAppend(score_project(projects[position], r), r)
    /\ position' = position + 1
    /\ UNCHANGED <<batch_pc, scored_records>>
    /\ UNCHANGED outsideBatch

\* return results
BatchScoreReturn ==
    /\ batch_pc = "loop"
    /\ position > Len(projects)
    /\ scored_records' = results
    /\ batch_pc' = "done"
    /\ UNCHANGED <<projects, position, results, score_distribution, attempts>>
    /\ UNCHANGED outsideBatch

(***************************************************************************)
(* The cleaning functions of the Normalizer (utils/helpers.py,             *)
(* utils/validators.py).  None, where a str is expected, is the one-element *)
(* sequence None; a value that is None or '' is falsy.                      *)
(***************************************************************************)
None == <<"<None>">>
Falsy(s) == s = <<>> \/ s = None

IsDigit(c) == InSeq(DigitChars, c)
IsLetter(c) == InSeq(UpperCase, c) \/ InSeq(LowerCase, c)

\* helpers.clean_string
clean_string(s) ==
    LET \* re.sub(r'\s+', ' ', t): every run of whitespace becomes one space
        RECURSIVE CollapseSpaces(_)
        CollapseSpaces(t) ==
            IF t = <<>> THEN <<>>
            ELSE IF ~IsSpace(Head(t)) THEN <<Head(t)>> \o CollapseSpaces(Tail(t))
            ELSE IF Len(t) > 1 /\ IsSpace(t[2]) THEN CollapseSpaces(Tail(t))
            ELSE <<" ">> \o CollapseSpaces(Tail(t))
    IN  IF Falsy(s) THEN <<>> ELSE strip(CollapseSpaces(s))

\* str.title(): a letter is upper-cased after a character that is not a letter
\* and lower-cased after a letter
title(s) ==
    [i \in 1..Len(s) |->
        IF ~IsLetter(s[i]) THEN s[i]
        ELSE IF i > 1 /\ IsLetter(s[i - 1])
             THEN (IF InSeq(UpperCase, s[i]) THEN LowerCase[IndexOf(UpperCase, s[i])]
                   ELSE s[i])
             ELSE (IF InSeq(LowerCase, s[i]) THEN UpperCase[IndexOf(LowerCase, s[i])]
                   ELSE s[i])]

\* DataValidator.normalize_country
normalize_country(country) ==
    IF Falsy(country) THEN <<>>
    ELSE LET country_lower == strip(lower(country))
         IN  IF country_lower \in {<<"c", "a", "n", "a", "d", "a">>, <<"c", "a">>, <<"c", "a", "n">>, FlagCanada}
             THEN FlagCanada \o <<" ", "C", "a", "n", "a", "d", "a">>
             ELSE IF country_lower \in {<<"a", "u", "s", "t", "r", "a", "l", "i", "a">>, <<"a", "u">>, <<"a", "u", "s">>, FlagAustralia}
                  THEN FlagAustralia \o <<" ", "A", "u", "s", "t", "r", "a", "l", "i", "a">>
                  ELSE country

CANADA_PROVINCES ==
    (<<"o", "n">> :> <<"O", "n", "t", "a", "r", "i", "o">>) @@ (<<"o", "n", "t", "a", "r", "i", "o">> :> <<"O", "n", "t", "a", "r", "i", "o">>) @@
    (<<"b", "c">> :> <<"B", "r", "i", "t", "i", "s", "h", " ", "C", "o", "l", "u", "m", "b", "i", "a">>) @@ (<<"b", "r", "i", "t", "i", "s", "h", " ", "c", "o", "l", "u", "m", "b", "i", "a">> :> <<"B", "r", "i", "t", "i", "s", "h", " ", "C", "o", "l", "u", "m", "b", "i", "a">>) @@
    (<<"a", "b">> :> <<"A", "l", "b", "e", "r", "t", "a">>) @@ (<<"a", "l", "b", "e", "r", "t", "a">> :> <<"A", "l", "b", "e", "r", "t", "a">>) @@
    (<<"q", "c">> :> <<"Q", "u", "e", "b", "e", "c">>) @@ (<<"q", "u", "e", "b", "e", "c">> :> <<"Q", "u", "e", "b", "e", "c">>) @@
    (<<"m", "b">> :> <<"M", "a", "n", "i", "t", "o", "b", "a">>) @@ (<<"m", "a", "n", "i", "t", "o", "b", "a">> :> <<"M", "a", "n", "i", "t", "o", "b", "a">>) @@
    (<<"s", "k">> :> <<"S", "a", "s", "k", "a", "t", "c", "h", "e", "w", "a", "n">>) @@ (<<"s", "a", "s", "k", "a", "t", "c", "h", "e", "w", "a", "n">> :> <<"S", "a", "s", "k", "a", "t", "c", "h", "e", "w", "a", "n">>) @@
    (<<"n", "s">> :> <<"N", "o", "v", "a", " ", "S", "c", "o", "t", "i", "a">>) @@ (<<"n", "o", "v", "a", " ", "s", "c", "o", "t", "i", "a">> :> <<"N", "o", "v", "a", " ", "S", "c", "o", "t", "i", "a">>) @@
    (<<"n", "b">> :> <<"N", "e", "w", " ", "B", "r", "u", "n", "s", "w", "i", "c", "k">>) @@ (<<"n", "e", "w", " ", "b", "r", "u", "n", "s", "w", "i", "c", "k">> :> <<"N", "e", "w", " ", "B", "r", "u", "n", "s", "w", "i", "c", "k">>) @@
    (<<"n", "l">> :> <<"N", "e", "w", "f", "o", "u", "n", "d", "l", "a", "n", "d", " ", "a", "n", "d", " ", "L", "a", "b", "r", "a", "d", "o", "r">>) @@
    (<<"n", "e", "w", "f", "o", "u", "n", "d", "l", "a", "n", "d">> :> <<"N", "e", "w", "f", "o", "u", "n", "d", "l", "a", "n", "d", " ", "a", "n", "d", " ", "L", "a", "b", "r", "a", "d", "o", "r">>) @@
    (<<"p", "e">> :> <<"P", "r", "i", "n", "c", "e", " ", "E", "d", "w", "a", "r", "d", " ", "I", "s", "l", "a", "n", "d">>) @@ (<<"p", "e", "i">> :> <<"P", "r", "i", "n", "c", "e", " ", "E", "d", "w", "a", "r", "d", " ", "I", "s", "l", "a", "n", "d">>) @@
    (<<"n", "t">> :> <<"N", "o", "r", "t", "h", "w", "e", "s", "t", " ", "T", "e", "r", "r", "i", "t", "o", "r", "i", "e", "s">>) @@
    (<<"n", "o", "r", "t", "h", "w", "e", "s", "t", " ", "t", "e", "r", "r", "i", "t", "o", "r", "i", "e", "s">> :> <<"N", "o", "r", "t", "h", "w", "e", "s", "t", " ", "T", "e", "r", "r", "i", "t", "o", "r", "i", "e", "s">>) @@
    (<<"y", "t">> :> <<"Y", "u", "k", "o", "n">>) @@ (<<"y", "u", "k", "o", "n">> :> <<"Y", "u", "k", "o", "n">>) @@
    (<<"n", "u">> :> <<"N", "u", "n", "a", "v", "u", "t">>) @@ (<<"n", "u", "n", "a", "v", "u", "t">> :> <<"N", "u", "n", "a", "v", "u", "t">>)

AUSTRALIA_STATES ==
    (<<"n", "s", "w">> :> <<"N", "e", "w", " ", "S", "o", "u", "t", "h", " ", "W", "a", "l", "e", "s">>) @@ (<<"n", "e", "w", " ", "s", "o", "u", "t", "h", " ", "w", "a", "l", "e", "s">> :> <<"N", "e", "w", " ", "S", "o", "u", "t", "h", " ", "W", "a", "l", "e", "s">>) @@
    (<<"v", "i", "c">> :> <<"V", "i", "c", "t", "o", "r", "i", "a">>) @@ (<<"v", "i", "c", "t", "o", "r", "i", "a">> :> <<"V", "i", "c", "t", "o", "r", "i", "a">>) @@
    (<<"q", "l", "d">> :> <<"Q", "u", "e", "e", "n", "s", "l", "a", "n", "d">>) @@ (<<"q", "u", "e", "e", "n", "s", "l", "a", "n", "d">> :> <<"Q", "u", "e", "e", "n", "s", "l", "a", "n", "d">>) @@
    (<<"w", "a">> :> <<"W", "e", "s", "t", "e", "r", "n", " ", "A", "u", "s", "t", "r", "a", "l", "i", "a">>) @@ (<<"w", "e", "s", "t", "e", "r", "n", " ", "a", "u", "s", "t", "r", "a", "l", "i", "a">> :> <<"W", "e", "s", "t", "e", "r", "n", " ", "A", "u", "s", "t", "r", "a", "l", "i", "a">>) @@
    (<<"s", "a">> :> <<"S", "o", "u", "t", "h", " ", "A", "u", "s", "t", "r", "a", "l", "i", "a">>) @@ (<<"s", "o", "u", "t", "h", " ", "a", "u", "s", "t", "r", "a", "l", "i", "a">> :> <<"S", "o", "u", "t", "h", " ", "A", "u", "s", "t", "r", "a", "l", "i", "a">>) @@
    (<<"t", "a", "s">> :> <<"T", "a", "s", "m", "a", "n", "i", "a">>) @@ (<<"t", "a", "s", "m", "a", "n", "i", "a">> :> <<"T", "a", "s", "m", "a", "n", "i", "a">>) @@
    (<<"a", "c", "t">> :> <<"A", "u", "s", "t", "r", "a", "l", "i", "a", "n", " ", "C", "a", "p", "i", "t", "a", "l", " ", "T", "e", "r", "r", "i", "t", "o", "r", "y">>) @@
    (<<"a", "u", "s", "t", "r", "a", "l", "i", "a", "n", " ", "c", "a", "p", "i", "t", "a", "l", " ", "t", "e", "r", "r", "i", "t", "o", "r", "y">> :> <<"A", "u", "s", "t", "r", "a", "l", "i", "a", "n", " ", "C", "a", "p", "i", "t", "a", "l", " ", "T", "e", "r", "r", "i", "t", "o", "r", "y">>) @@
    (<<"n", "t">> :> <<"N", "o", "r", "t", "h", "e", "r", "n", " ", "T", "e", "r", "r", "i", "t", "o", "r", "y">>) @@ (<<"n", "o", "r", "t", "h", "e", "r", "n", " ", "t", "e", "r", "r", "i", "t", "o", "r", "y">> :> <<"N", "o", "r", "t", "h", "e", "r", "n", " ", "T", "e", "r", "r", "i", "t", "o", "r", "y">>)

\* DataValidator.normalize_province
normalize_province(province, country) ==
    IF Falsy(province) THEN <<>>
    ELSE LET province_lower == strip(lower(province))
             \* table.get(province_lower, province.title())
             DictGet(table) ==
                 IF province_lower \in DOMAIN table THEN table[province_lower]
                 ELSE title(province)
         IN  IF lower(country) \in {<<"c", "a", "n", "a", "d", "a">>, <<"c", "a">>, FlagCanada}
             THEN DictGet(CANADA_PROVINCES)
             ELSE IF lower(country) \in {<<"a", "u", "s", "t", "r", "a", "l", "i", "a">>, <<"a", "u">>, FlagAustralia}
                  THEN DictGet(AUSTRALIA_STATES)
                  ELSE title(province)

\* DataValidator.clean_capacity
clean_capacity(capacity) ==
    LET \* re.findall(r'\d+', s)[0]: the first run of digits, <<>> where none
        RECURSIVE FirstDigits(_)
        FirstDigits(s) ==
            IF s = <<>> THEN <<>>
            ELSE IF ~IsDigit(Head(s)) THEN FirstDigits(Tail(s))
            ELSE LET n == CHOOSE k \in 1..Len(s) :
                              /\ \A i \in 1..k : IsDigit(s[i])
                              /\ (k = Len(s) \/ ~IsDigit(s[k + 1]))
                 IN  SubSeq(s, 1, n)
    IN  IF capacity.type = "None" \/ (capacity.type = "str" /\ capacity.str = <<>>)
        THEN NoCapacity
        ELSE IF capacity.type = "int" THEN capacity
        ELSE IF FirstDigits(capacity.str) # <<>>
             THEN IntCapacity(DigitsValue(FirstDigits(capacity.str)))
             ELSE NoCapacity

\* DataValidator.clean_phone
clean_phone(phone) ==
    LET \* re.sub(r'[^\d+]', '', s)
        RECURSIVE DigitsAndPlus(_)
        DigitsAndPlus(s) ==
            IF s = <<>> THEN <<>>
            ELSE IF IsDigit(Head(s)) \/ Head(s) = "+"
                 THEN <<Head(s)>> \o DigitsAndPlus(Tail(s))
                 ELSE DigitsAndPlus(Tail(s))
        cleaned == DigitsAndPlus(phone)
    IN  IF Falsy(phone) THEN <<>>
        ELSE IF Len(cleaned) = 10
             THEN <<"(">> \o SubSeq(cleaned, 1, 3) \o <<")", " ">> \o SubSeq(cleaned, 4, 6)
                  \o <<"-">> \o SubSeq(cleaned, 7, 10)
             ELSE IF Len(cleaned) = 11 /\ cleaned[1] = "1"
                  THEN <<"+", "1", " ", "(">> \o SubSeq(cleaned, 2, 4) \o <<")", " ">> \o SubSeq(cleaned, 5, 7)
                       \o <<"-">> \o SubSeq(cleaned, 8, 11)
                  ELSE cleaned

\* DataValidator.clean_email
clean_email(email) ==
    LET e == lower(strip(email))
        \* the pattern ^[a-zA-Z0-9._%+-]+@[a-zA-Z0-9.-]+\.[a-zA-Z]{2,}$
        IsLocalChar(c) == IsAlnum(c) \/ c \in {".", "_", "%", "+", "-"}
        IsDomainChar(c) == IsAlnum(c) \/ c \in {".", "-"}
        email_pattern ==
            \E at \in 2..Len(e) : \E dot \in (at + 2)..(Len(e) - 2) :
                /\ e[at] = "@"
                /\ \A i \in 1..(at - 1) : IsLocalChar(e[i])
                /\ \A i \in (at + 1)..(dot - 1) : IsDomainChar(e[i])
                /\ e[dot] = "."
                /\ \A i \in (dot + 1)..Len(e) : IsLetter(e[i])
    IN  IF Falsy(email) THEN <<>>
        ELSE IF email_pattern THEN e ELSE <<>>
(***************************************************************************)
(* datetime.strptime and strftime, as far as format_date and               *)
(* _validate_date use them.  A format is a sequence of directives ("%Y",   *)
(* "%m", ...) and literal characters; each directive matches the           *)
(* alternatives of its regular expression in their order, the two-         *)
(* character alternatives first, with backtracking.                        *)
(***************************************************************************)
\* the result of a parse that raised ValueError
NoMatch == [ok |-> FALSE, Y |-> 0, m |-> 0, d |-> 0, H |-> 0, M |-> 0, S |-> 0]

\* datetime.strptime(text, format): NoMatch stands for ValueError, raised when
\* the text does not match or the fields are not a date and time of day
strptime(text, format) ==
    LET \* t is one alternative of the directive's regular expression: digits
        \* says that t is digits only, v is their value
        Alternative(dir, t, digits, v) ==
            CASE dir = "%Y" -> Len(t) = 4 /\ digits
              [] dir = "%m" -> \/ Len(t) = 2 /\ digits /\ v \in 1..12
                               \/ Len(t) = 1 /\ digits /\ v \in 1..9
              [] dir = "%d" -> \/ Len(t) = 2 /\ digits /\ v \in 1..31
                               \/ Len(t) = 1 /\ digits /\ v \in 1..9
                               \/ Len(t) = 2 /\ t[1] = " " /\ v \in 1..9
              [] dir = "%H" -> \/ Len(t) = 2 /\ digits /\ v \in 0..23
                               \/ Len(t) = 1 /\ digits
              [] dir = "%M" -> \/ Len(t) = 2 /\ digits /\ v \in 0..59
                               \/ Len(t) = 1 /\ digits
              [] dir = "%S" -> \/ Len(t) = 2 /\ digits /\ v \in 0..61
                               \/ Len(t) = 1 /\ digits
        \* the field of the directive set to v
        SetField(acc, dir, v) ==
            CASE dir = "%Y" -> [acc EXCEPT !.Y = v]
              [] dir = "%m" -> [acc EXCEPT !.m = v]
              [] dir = "%d" -> [acc EXCEPT !.d = v]
              [] dir = "%H" -> [acc EXCEPT !.H = v]
              [] dir = "%M" -> [acc EXCEPT !.M = v]
              [] dir = "%S" -> [acc EXCEPT !.S = v]
        \* the regular-expression match of the whole text against the format
        RECURSIVE regex_match(_, _, _)
        regex_match(fmt, s, acc) ==
            IF fmt = <<>> THEN (IF s = <<>> THEN acc ELSE NoMatch)
            ELSE IF Head(fmt) \in {"%Y", "%m", "%d", "%H", "%M", "%S"}
            THEN LET \* the directive taking t, of value v, then the rest
                     Taking(t, v) ==
                         IF Alternative(Head(fmt), t,
                                        \A i \in 1..Len(t) : IsDigit(t[i]), v)
                         THEN regex_match(Tail(fmt), SubSeq(s, Len(t) + 1, Len(s)),
                                          SetField(acc, Head(fmt), v))
                         ELSE NoMatch
                     Try(w) ==
                         IF Len(s) < w THEN NoMatch
                         ELSE Taking(SubSeq(s, 1, w),
                                     DigitsValue(SelectSeq(SubSeq(s, 1, w), IsDigit)))
                     \* the alternatives in the order tried: the widest first
                     OrShorter(first) ==
                         IF first.ok \/ Head(fmt) = "%Y" THEN first ELSE Try(1)
                 IN  OrShorter(Try(IF Head(fmt) = "%Y" THEN 4 ELSE 2))
            ELSE IF Head(fmt) = " "
            THEN (IF s = <<>> \/ ~IsSpace(Head(s)) THEN NoMatch
                  ELSE IF Len(s) > 1 /\ IsSpace(s[2]) THEN regex_match(fmt, Tail(s), acc)
                  ELSE regex_match(Tail(fmt), Tail(s), acc))
            ELSE IF s # <<>> /\ Head(s) = Head(fmt)
                 THEN regex_match(Tail(fmt), Tail(s), acc)
                 ELSE NoMatch
        \* datetime(...) of the fields found: a day the month has, no leap second
        Checked(found, leap) ==
            IF /\ found.ok
               /\ found.Y >= 1
               /\ found.d <= (IF found.m = 2 THEN (IF leap THEN 29 ELSE 28)
                              ELSE IF found.m \in {4, 6, 9, 11} THEN 30 ELSE 31)
               /\ found.S <= 59
            THEN found ELSE NoMatch
        IsLeap(y) == y % 4 = 0 /\ (y % 100 # 0 \/ y % 400 = 0)
        Dated(found) == Checked(found, IsLeap(found.Y))
    IN  Dated(regex_match(format, text,
                          [ok |-> TRUE, Y |-> 1900, m |-> 1, d |-> 1,
                           H |-> 0, M |-> 0, S |-> 0]))

\* dt.strftime('%Y-%m-%d'); the C library writes the year without padding
strftime(dt) ==
    LET Pad2(n) == IF n < 10 THEN <<"0">> \o Decimal(n) ELSE Decimal(n)
    IN  Decimal(dt.Y) \o <<"-">> \o Pad2(dt.m) \o <<"-">> \o Pad2(dt.d)

\* "for fmt in formats: try: ... strptime ... except ValueError: continue":
\* the first format of the list that parses the text, or NoMatch
RECURSIVE FirstParse(_, _)
FirstParse(s, formats) ==
    LET OrNext(dt) == IF dt.ok THEN dt ELSE FirstParse(s, Tail(formats))
    IN  IF formats = <<>> THEN NoMatch ELSE OrNext(strptime(s, Head(formats)))

\* helpers.format_date
format_date(date_input) ==
    LET Formatted(dt) == IF dt.ok THEN strftime(dt) ELSE date_input
    IN  IF date_input = None THEN <<>>
        ELSE Formatted(FirstParse(strip(date_input),
                 << <<"%Y", "-", "%m", "-", "%d">>,
                    <<"%Y", "/", "%m", "/", "%d">>,
                    <<"%d", "/", "%m", "/", "%Y">>,
                    <<"%m", "/", "%d", "/", "%Y">>,
                    <<"%Y", "-", "%m", "-", "%d", " ", "%H", ":", "%M", ":", "%S">>,
                    <<"%Y", "%m", "%d">> >>))

\* DataValidator._validate_date
_validate_date(date_str) ==
    FirstParse(date_str,
        << <<"%Y", "-", "%m", "-", "%d">>,
           <<"%Y", "/", "%m", "/", "%d">>,
           <<"%d", "/", "%m", "/", "%Y">>,
           <<"%m", "/", "%d", "/", "%Y">> >>).ok

(***************************************************************************)
(* The records fed to the DataProcessor and the DataValidator.             *)
(***************************************************************************)
\* a key the dict does not have
Absent == <<"<absent>">>
\* the dict of the str fields given, and the capacity (None where absent)
Raw(strs, capacity) ==
    [key \in {k \in DOMAIN strs : strs[k] # Absent} \cup {"capacity"} |->
        IF key = "capacity" THEN capacity ELSE strs[key]]

Todays == {<<"2", "0", "2", "4", "-", "0", "3", "-", "0", "1">>, <<"2", "0", "2", "4", "-", "0", "3", "-", "0", "2">>}
RecordTypes == {"new_project", "sale", "tender", "other"}

RawRecords ==
    LET Phones == {Absent, <<"4", "1", "6", "-", "5", "5", "5", "-", "1", "2", "3", "4">>, <<"1", " ", "(", "4", "1", "6", ")", " ", "5", "5", "5", "-", "1", "2", "3", "4">>, <<"5", "5", "5", "-", "1", "2", "3", "4">>}
        \* province, country, city
        Places ==
            { <<<<"o", "n">>, <<"C", "a", "n", "a", "d", "a">>, <<" ", "t", "o", "r", "o", "n", "t", "o", " ">>>>,
              <<<<"n", "l">>, <<"C", "A">>, <<"s", "t", ".", " ", "j", "o", "h", "n", "'", "s">>>>,
              <<<<"N", "e", "w", "f", "o", "u", "n", "d", "l", "a", "n", "d">>, <<"c", "a", "n", "a", "d", "a">>, Absent>>,
              <<<<"n", "t">>, FlagCanada, <<"Y", "E", "L", "L", "O", "W", "K", "N", "I", "F", "E">>>>,
              <<<<"N", "S", "W">>, <<" ", "a", "u", "s", "t", "r", "a", "l", "i", "a", " ">>, <<"s", "y", "d", "n", "e", "y">>>>,
              <<<<"b", "a", "v", "a", "r", "i", "a">>, <<"G", "e", "r", "m", "a", "n", "y">>, <<"m", "u", "n", "i", "c", "h">>>>,
              <<Absent, <<"c", "a", "n">>, <<"C", "a", "l", "g", "a", "r", "y">>>>,
              <<<<"o", "n">>, None, <<"T", "o", "r", "o", "n", "t", "o">>>> }
        RawCapacities ==
            { NoCapacity, IntCapacity(40), StrCapacity(<<"8", "5", " ", "k", "i", "d", "s">>),
              StrCapacity(<<"n", "/", "a">>), StrCapacity(<<>>) }
        Emails == {Absent, <<" ", "I", "n", "f", "o", "@", "K", "i", "d", "s", ".", "C", "A", " ">>, <<"n", "o", "t", "-", "a", "n", "-", "e", "m", "a", "i", "l">>}
        DiscoveredDates ==
            { Absent, <<"2", "0", "2", "4", "-", "0", "1", "-", "0", "5">>, <<"1", "3", "/", "0", "1", "/", "2", "0", "2", "4">>, <<"0", "1", "/", "1", "3", "/", "2", "0", "2", "4">>,
              <<"2", "0", "2", "4", "-", "0", "1", "-", "0", "5", " ", "1", "0", ":", "3", "0", ":", "0", "0">>, <<"2", "0", "2", "4", "0", "1", "0", "5">>, <<"s", "o", "o", "n">>, <<"2", "0", "2", "4", "-", "0", "2", "-", "3", "0">> }
        PublishedDates == {Absent, <<"2", "0", "2", "4", "/", "2", "/", "9">>}
        \* a record that comes with scoring fields of its own
        Scored(record, score, priority) ==
            [key \in DOMAIN record \cup {"ai_score", "priority"} |->
                CASE key = "ai_score" -> score
                  [] key = "priority" -> priority
                  [] OTHER -> record[key]]
        Plain == Raw([name |-> <<"K", "i", "d", "s">>, source |-> <<"w", "e", "b">>, country |-> <<"C", "a", "n", "a", "d", "a">>,
                      discovered_date |-> <<"2", "0", "2", "4", "-", "0", "1", "-", "0", "5">>], IntCapacity(40))
    IN  { Raw([name |-> <<" ", "H", "a", "p", "p", "y", " ", " ", " ", "K", "i", "d", "s", " ">>, source |-> <<"w", "e", "b">>, province |-> place[1],
               country |-> place[2], city |-> place[3], phone |-> phone,
               email |-> email, discovered_date |-> discovered,
               published_date |-> published], capacity) :
            place \in Places, phone \in Phones, email \in Emails,
            discovered \in DiscoveredDates, published \in PublishedDates,
            capacity \in RawCapacities }
        \cup {Plain, Scored(Plain, 95, "Critical"), Scored(Plain, 50, "Medium")}

\* what validate_record is asked about
Candidates ==
    { Raw([name |-> name, country |-> country, source |-> source,
           discovered_date |-> discovered, published_date |-> published], capacity) :
        name \in {Absent, None, <<" ", " ">>, <<"K", "i", "d", "s">>},
        country \in {Absent, None, <<>>, <<"C", "a", "n", "a", "d", "a">>, <<"U", "S", "A">>, <<"J", "a", "m", "a", "i", "c", "a">>},
        source \in {Absent, <<"w", "e", "b">>},
        discovered \in {Absent, <<"2", "0", "2", "4", "-", "0", "1", "-", "0", "5">>, <<"s", "o", "o", "n">>},
        published \in {Absent, <<" ">>, <<"2", "0", "2", "4", "-", "0", "1", "-", "0", "5">>},
        capacity \in { NoCapacity, IntCapacity(40), IntCapacity(-5), IntCapacity(600),
                       StrCapacity(<<"1", "2">>), StrCapacity(<<"a", "b", "c">>), StrCapacity(<<"-", "5">>) } }

\* the raw records of the process_records runs: one that passes, one per kind
\* of validation error, one whose date has a year below 1000, one whose
\* normalization raises, one that normalization repairs
BatchRecords ==
    LET GoodRecord ==
            Raw([name |-> <<"K", "i", "d", "s">>, country |-> <<"C", "a", "n", "a", "d", "a">>, source |-> <<"w", "e", "b">>,
                 discovered_date |-> <<"2", "0", "2", "4", "/", "1", "/", "5">>, published_date |-> <<"2", "0", "2", "4", "-", "0", "1", "-", "0", "9">>],
                IntCapacity(40))
    IN  { GoodRecord,
          [GoodRecord EXCEPT !["name"] = <<" ", " ">>],
          [GoodRecord EXCEPT !["discovered_date"] = <<"s", "o", "o", "n">>],
          [GoodRecord EXCEPT !["discovered_date"] = <<"0", "9", "9", "9", "-", "0", "1", "-", "0", "5">>],
          [GoodRecord EXCEPT !["capacity"] = IntCapacity(-5)],
          [GoodRecord EXCEPT !["capacity"] = IntCapacity(600)],
          [GoodRecord EXCEPT !["country"] = <<"U", "S", "A">>],
          Raw([name |-> <<"K", "i", "d", "s">>, country |-> None, province |-> <<"o", "n">>,
               source |-> <<"w", "e", "b">>], NoCapacity),
          Raw([name |-> <<"T", "o", "t", "s">>, country |-> <<"a", "u">>, source |-> <<"w", "e", "b">>,
               published_date |-> <<"2", "0", "2", "4", "-", "0", "1", "-", "0", "9">>], StrCapacity(<<"-", "5">>)) }

(***************************************************************************)
(* DataProcessor.normalize_record.  A raw record is a dict: a function     *)
(* from the keys it has to their values.                                   *)
(***************************************************************************)
\* record.get(key, default)
GetOr(record, key, default) == IF key \in DOMAIN record THEN record[key] ELSE default

\* the one exception the cleaning functions raise on the records modelled
normalize_raises(record) ==
    ~Falsy(Get(record, "province")) /\ Get(record, "country") = None

\* now is what get_today() returns during the call
normalize_record(record, now) ==
    LET \* the keys always written
        BaseFields ==
            {"name", "address", "city", "country", "province", "capacity", "phone",
             "email", "license_number", "license_status", "discovered_date",
             "source", "source_url", "ai_score", "priority", "ai_reasoning",
             "ai_recommendation", "notes", "type"}
        \* the keys written "if key in record"
        CopiedFields ==
            {"price", "annual_revenue", "cash_flow", "lease_remaining",
             "property_type", "contract_value", "tender_type", "organization"}
        FormattedDateFields == {"published_date", "deadline_date"}
    IN
    [key \in BaseFields \cup ((CopiedFields \cup FormattedDateFields) \cap DOMAIN record) |->
        CASE key = "name" -> clean_string(Get(record, "name"))
          [] key = "address" -> clean_string(Get(record, "address"))
          [] key = "city" -> title(clean_string(Get(record, "city")))
          [] key = "country" -> normalize_country(Get(record, "country"))
          [] key = "province" ->
                 normalize_province(Get(record, "province"), Get(record, "country"))
          [] key = "capacity" -> clean_capacity(GetOr(record, "capacity", NoCapacity))
          [] key = "phone" -> clean_phone(Get(record, "phone"))
          [] key = "email" -> clean_email(Get(record, "email"))
          [] key = "license_number" -> clean_string(Get(record, "license_number"))
          [] key = "discovered_date" ->
                 format_date(IF Falsy(GetOr(record, "discovered_date", None)) THEN now
                             ELSE record["discovered_date"])
          [] key = "ai_score" -> GetOr(record, "ai_score", 50)
          [] key = "priority" -> GetOr(record, "priority", "Medium")
          [] key = "type" -> GetOr(record, "type", <<"U+65B0", "U+5EFA">>)
          [] key \in FormattedDateFields -> format_date(record[key])
          [] OTHER -> Get(record, key)]

(***************************************************************************)
(* DataValidator.validate_record.  An error is the pair of its kind and    *)
(* the field it is about; the list keeps the order of the appends.          *)
(***************************************************************************)
REQUIRED_FIELDS ==
    [new_project |-> <<"name", "country", "source", "discovered_date">>,
     sale |-> <<"name", "country", "source", "discovered_date">>,
     tender |-> <<"name", "country", "source", "published_date">>]

\* cls.REQUIRED_FIELDS.get(record_type, cls.REQUIRED_FIELDS['new_project'])
required_fields(rtype) ==
    IF rtype \in DOMAIN REQUIRED_FIELDS THEN REQUIRED_FIELDS[rtype]
    ELSE REQUIRED_FIELDS["new_project"]

\* one aggregate error for all the missing fields
required_errors_aggregate(record, rtype) ==
    IF \E i \in 1..Len(required_fields(rtype)) :
          \/ GetOr(record, required_fields(rtype)[i], None) = None
          \/ strip(record[required_fields(rtype)[i]]) = <<>>
    THEN <<<<"missing", required_fields(rtype)[1]>>>> ELSE <<>>

\* "for field in required: value = record.get(field); if value is None or
\* (isinstance(value, str) and not value.strip()): errors.append(...)"
required_errors(record, rtype) ==
    LET IsMissing(field) ==
            GetOr(record, field, None) = None \/ strip(record[field]) = <<>>
        missing == SelectSeq(required_fields(rtype), IsMissing)
    IN  [i \in 1..Len(missing) |-> <<"missing", missing[i]>>]

date_error(record, date_field) ==
    IF ~Falsy(GetOr(record, date_field, None)) /\ ~_validate_date(record[date_field])
    THEN <<<<"bad_date", date_field>>>> ELSE <<>>

validation_errors(record, rtype) ==
    LET capacity_errors ==
            LET capacity == GetOr(record, "capacity", NoCapacity)
                parsed == int_of_str(capacity.str)
                numeric == capacity.type = "int" \/ (capacity.type = "str" /\ parsed.ok)
                value == IF capacity.type = "int" THEN capacity.int ELSE parsed.value
            IN  (IF capacity.type = "str" /\ ~parsed.ok THEN <<<<"invalid", "capacity">>>> ELSE <<>>)
                \o (IF numeric /\ value < 0 THEN <<<<"negative", "capacity">>>> ELSE <<>>)
                \o (IF numeric /\ value > 500 THEN <<<<"too_large", "capacity">>>> ELSE <<>>)
        country_errors ==
            LET country == lower(Get(record, "country"))
                valid_countries ==
                    {<<"c", "a", "n", "a", "d", "a">>, <<"a", "u", "s", "t", "r", "a", "l", "i", "a">>, <<"c", "a">>, <<"a", "u">>, FlagCanada, FlagAustralia,
                     FlagCanada \o <<" ", "c", "a", "n", "a", "d", "a">>, FlagAustralia \o <<" ", "a", "u", "s", "t", "r", "a", "l", "i", "a">>}
            IN  IF country # <<>> /\ ~AnyIn(valid_countries, country)
                THEN <<<<"unsupported", "country">>>> ELSE <<>>
    IN  required_errors(record, rtype) \o capacity_errors
        \o date_error(record, "discovered_date") \o date_error(record, "published_date")
        \o date_error(record, "deadline_date") \o country_errors

validate_record(record, rtype) ==
    [is_valid |-> Len(validation_errors(record, rtype)) = 0,
     errors |-> validation_errors(record, rtype)]

(***************************************************************************)
(* One call of normalize_record, and one more on its result.                *)
(***************************************************************************)
NormalizeRecord ==
    /\ norm_pc = "raw"
    /\ \E t \in Todays :
          /\ today' = t
          /\ IF normalize_raises(raw_record)
             THEN norm_pc' = "raised" /\ UNCHANGED normalized
             ELSE norm_pc' = "once" /\ normalized' = normalize_record(raw_record, t)
    /\ UNCHANGED <<raw_record, renormalized>>
    /\ UNCHANGED <<<<candidate, candidate_type, validation, val_pc>>, <<raw_records, record_type, proc_pc, proc_i, processed, errors, dates_read, returned_processed>>>>
    /\ UNCHANGED outsideProcessor

NormalizeAgain ==
    /\ norm_pc = "once"
    /\ \E t \in Todays :
          /\ today' = t
          /\ renormalized' = normalize_record(normalized, t)
    /\ norm_pc' = "twice"
    /\ UNCHANGED <<raw_record, normalized>>
    /\ UNCHANGED <<<<candidate, candidate_type, validation, val_pc>>, <<raw_records, record_type, proc_pc, proc_i, processed, errors, dates_read, returned_processed>>>>
    /\ UNCHANGED outsideProcessor

(***************************************************************************)
(* One call of validate_record.                                            *)
(***************************************************************************)
ValidateRecord ==
    /\ val_pc = "called"
    \* record.get('country', '').lower() of a country that is None raises
    /\ IF GetOr(candidate, "country", <<>>) = None
       THEN val_pc' = "raised" /\ UNCHANGED validation
       ELSE val_pc' = "returned" /\ validation' = validate_record(candidate, candidate_type)
    /\ UNCHANGED <<candidate, candidate_type>>
    /\ UNCHANGED <<<<today, raw_record, normalized, renormalized, norm_pc>>, <<raw_records, record_type, proc_pc, proc_i, processed, errors, dates_read, returned_processed>>>>
    /\ UNCHANGED outsideProcessor

(***************************************************************************)
(* DataProcessor.process_records: the loop over the batch, one record per  *)
(* step, and the return.                                                   *)
(***************************************************************************)
\* the dates get_today() can return after the ones it has returned: the clock
\* does not go back
LaterDays(read) ==
    {t \in Todays : read = <<>> \/ ~StrLess(t, read[Len(read)])}

ProcessRecordsBegin ==
    /\ proc_pc = "idle"
    /\ processed' = <<>> /\ errors' = <<>> /\ proc_i' = 1 /\ dates_read' = <<>>
    /\ proc_pc' = "loop"
    /\ UNCHANGED <<raw_records, record_type, returned_processed>>
    /\ UNCHANGED <<<<today, raw_record, normalized, renormalized, norm_pc>>, <<candidate, candidate_type, validation, val_pc>>>>
    /\ UNCHANGED outsideProcessor

\* the loop body without the except clause: the exception of a record leaves
\* the call
ProcessRecordsStepUncaught ==
    /\ proc_pc = "loop"
    /\ proc_i <= Len(raw_records)
    /\ \E t \in LaterDays(dates_read) :
          LET record == raw_records[proc_i]
              normalized_record == normalize_record(record, t)
              checked == validate_record(normalized_record, record_type)
          IN  /\ dates_read' = Append(dates_read, t)
              /\ IF normalize_raises(record)
                 THEN proc_pc' = "raised" /\ UNCHANGED <<processed, errors>>
                 ELSE /\ UNCHANGED proc_pc
                      /\ IF checked.is_valid
                         THEN /\ processed' = Append(processed, normalized_record)
                              /\ UNCHANGED errors
                         ELSE /\ errors' = Append(errors, [index |-> proc_i - 1,
                                               record |-> Get(record, "name"),
                                               errors |-> checked.errors])
                              /\ UNCHANGED processed
    /\ proc_i' = proc_i + 1
    /\ UNCHANGED <<raw_records, record_type, returned_processed>>
    /\ UNCHANGED <<<<today, raw_record, normalized, renormalized, norm_pc>>, <<candidate, candidate_type, validation, val_pc>>>>
    /\ UNCHANGED outsideProcessor

ProcessRecordsStep ==
    /\ proc_pc = "loop"
    /\ proc_i <= Len(raw_records)
    /\ \E t \in LaterDays(dates_read) :
          LET record == raw_records[proc_i]
              normalized_record == normalize_record(record, t)
              checked == validate_record(normalized_record, record_type)
              \* {'index': i, 'record': record.get('name', 'Unknown'), 'errors': ...}
              ErrorEntry(i, rec, errs) ==
                  [index |-> i - 1, record |-> GetOr(rec, "name", <<"U", "n", "k", "n", "o", "w", "n">>),
                   errors |-> errs]
          IN  /\ dates_read' = Append(dates_read, t)
              /\ IF normalize_raises(record)
                 THEN /\ errors' = Append(errors,
                                       ErrorEntry(proc_i, record, <<<<"exception", "">>>>))
                      /\ UNCHANGED processed
                 ELSE IF checked.is_valid
                 THEN /\ processed' = Append(processed, normalized_record)
                      /\ UNCHANGED errors
                 ELSE /\ errors' = Append(errors,
                                       ErrorEntry(proc_i, record, checked.errors))
                      /\ UNCHANGED processed
    /\ proc_i' = proc_i + 1
    /\ UNCHANGED <<raw_records, record_type, proc_pc, returned_processed>>
    /\ UNCHANGED <<<<today, raw_record, normalized, renormalized, norm_pc>>, <<candidate, candidate_type, validation, val_pc>>>>
    /\ UNCHANGED outsideProcessor

ProcessRecordsReturn ==
    /\ proc_pc = "loop"
    /\ proc_i > Len(raw_records)
    /\ returned_processed' = processed
    /\ proc_pc' = "returned"
    /\ UNCHANGED <<raw_records, record_type, proc_i, processed, errors, dates_read>>
    /\ UNCHANGED <<<<today, raw_record, normalized, renormalized, norm_pc>>, <<candidate, candidate_type, validation, val_pc>>>>
    /\ UNCHANGED outsideProcessor

(***************************************************************************)
(* Deduplicator.dedupe_within_batch and helpers.generate_record_id.        *)
(***************************************************************************)
\* helpers.generate_record_id.  The identifier is the first 16 hex digits of
\* the MD5 of key_string; the digest is taken as one that never maps two key
\* strings to the same identifier, and so stands as the key string itself.
generate_record_id(record) ==
    LET \* '|'.join(fields)
        RECURSIVE JoinWithBar(_)
        JoinWithBar(fields) ==
            IF fields = <<>> THEN <<>>
            ELSE IF Len(fields) = 1 THEN fields[1]
            ELSE fields[1] \o <<"|">> \o JoinWithBar(Tail(fields))
        \* str(f).lower().strip() of the five key fields, joined
        key_string ==
            JoinWithBar(<<strip(lower(Get(record, "license_number"))),
                          strip(lower(Get(record, "name"))),
                          strip(lower(Get(record, "address"))),
                          strip(lower(Get(record, "city"))),
                          strip(lower(Get(record, "country")))>>)
    IN  key_string

\* the list the next call is made with: the caller's batch, then the list the
\* call before returned
WithinArgument ==
    IF within_results = <<>> THEN within_batch ELSE within_results[Len(within_results)]

DedupeWithinBatchEmpty ==
    /\ within_pc \in {"idle", "returned"}
    /\ Len(within_results) < MaxWithinCalls
    /\ WithinArgument = <<>>
    /\ within_results' = Append(within_results, <<>>)
    /\ within_pc' = "returned"
    /\ UNCHANGED <<within_batch, within_records, within_idx, within_unique_records, seen_ids>>
    /\ UNCHANGED outsideWithin

DedupeWithinBatchBegin ==
    /\ within_pc \in {"idle", "returned"}
    /\ Len(within_results) < MaxWithinCalls
    /\ WithinArgument # <<>>
    /\ within_records' = WithinArgument
    /\ within_unique_records' = <<>> /\ seen_ids' = {} /\ within_idx' = 1
    /\ within_pc' = "loop"
    /\ UNCHANGED <<within_batch, within_results>>
    /\ UNCHANGED outsideWithin

DedupeWithinBatchStep ==
    /\ within_pc = "loop"
    /\ within_idx <= Len(within_records)
    /\ LET record == within_records[within_idx]
           record_id == generate_record_id(record)
       IN  IF record_id \notin seen_ids
           THEN /\ seen_ids' = seen_ids \cup {record_id}
                /\ within_unique_records' = Append(within_unique_records, record)
           ELSE UNCHANGED <<seen_ids, within_unique_records>>
    /\ within_idx' = within_idx + 1
    /\ UNCHANGED <<within_batch, within_records, within_pc, within_results>>
    /\ UNCHANGED outsideWithin

DedupeWithinBatchReturn ==
    /\ within_pc = "loop"
    /\ within_idx > Len(within_records)
    /\ within_results' = Append(within_results, within_unique_records)
    /\ within_pc' = "returned"
    /\ UNCHANGED <<within_batch, within_records, within_idx, within_unique_records, seen_ids>>
    /\ UNCHANGED outsideWithin

\* the records of the dedupe_within_batch runs
WithinRecords ==
    LET KeyRecord(license_number, name, address, city, country) ==
            [license_number |-> license_number, name |-> name, address |-> address,
             city |-> city, country |-> country]
    IN
    { KeyRecord(<<>>, <<"K", "i", "d", "s">>, <<"1", " ", "M", "a", "i", "n", " ", "S", "t">>, <<"T", "o", "r", "o", "n", "t", "o">>, <<"C", "a", "n", "a", "d", "a">>),
      KeyRecord(<<>>, <<" ", "K", "I", "D", "S", " ">>, <<"1", " ", "m", "a", "i", "n", " ", "s", "t">>, <<"t", "o", "r", "o", "n", "t", "o">>, <<"C", "a", "n", "a", "d", "a">>),
      KeyRecord(<<>>, <<"K", "i", "d", "s">>, <<"1", " ", "M", "a", "i", "n", " ", "S", "t">>, <<"O", "t", "t", "a", "w", "a">>, <<"C", "a", "n", "a", "d", "a">>),
      KeyRecord(<<"L", "-", "1">>, <<"K", "i", "d", "s">>, <<"1", " ", "M", "a", "i", "n", " ", "S", "t">>, <<"T", "o", "r", "o", "n", "t", "o">>, <<"C", "a", "n", "a", "d", "a">>),
      KeyRecord(<<>>, <<"K", "i", "d", "s", "|", "E", "a", "s", "t">>, <<"1", " ", "M", "a", "i", "n", " ", "S", "t">>, <<"T", "o", "r", "o", "n", "t", "o">>, <<"C", "a", "n", "a", "d", "a">>),
      KeyRecord(<<>>, <<"K", "i", "d", "s">>, <<"E", "a", "s", "t", "|", "1", " ", "M", "a", "i", "n", " ", "S", "t">>, <<"T", "o", "r", "o", "n", "t", "o">>, <<"C", "a", "n", "a", "d", "a">>) }

(***************************************************************************)
(* Records as remove_duplicates meets them in main(): scored or not, with  *)
(* the fields the scorers add.                                              *)
(***************************************************************************)
DerivedRecords ==
    LET \* main.py: the list process_records returned, unscored
        Unscored(record) == record
        \* the fields Scorer.score_record writes
        RuleScored(record, score, priority) ==
            [key \in DOMAIN record \cup {"ai_score", "priority", "capacity_score",
                                         "location_score", "stage_score",
                                         "scoring_method"} |->
                CASE key = "ai_score" -> score
                  [] key = "priority" -> priority
                  [] key = "capacity_score" -> 15
                  [] key = "location_score" -> 20
                  [] key = "stage_score" -> score - 35
                  [] key = "scoring_method" -> "rule_based"
                  [] OTHER -> record[key]]
        \* the fields ClaudeAnalyzer.score_project writes
        AiScored(record, score, priority) ==
            [key \in DOMAIN record \cup {"ai_score", "priority", "ai_reasoning",
                                         "scoring_method"} |->
                CASE key = "ai_score" -> score
                  [] key = "priority" -> priority
                  [] key = "ai_reasoning" -> <<"o", "k">>
                  [] key = "scoring_method" -> "claude_ai"
                  [] OTHER -> record[key]]
        DerivedBase ==
            { [license_number |-> <<"O", "N", "-", "1", "0", "0", "1">>, name |-> <<"k", "i", "d", "s">>,
               address |-> <<"1", "2", " ", "M", "a", "i", "n", " ", "S", "t">>],
              [license_number |-> <<>>, name |-> <<"K", "i", "d", "s", " ">>, address |-> <<" ", "1", "2", " ", "m", "a", "i", "n", " ", "s", "t">>],
              [name |-> <<"t", "o", "t", "s">>, address |-> <<"m", "a", "i", "n", " ", "s", "t", " ", "1", "2">>],
              [license_number |-> <<>>, name |-> <<"k", "i", "d", "s">>, address |-> <<"7", " ", "o", "a", "k", " ", "a", "v", "o">>] }
    IN  UNION { {Unscored(r), RuleScored(r, 65, "High"), AiScored(r, 95, "Critical")} :
                r \in DerivedBase }

(***************************************************************************)
(* NotificationManager (notification_manager.py).  A channel is "enabled"  *)
(* when the manager holds its notifier and the notifier is enabled; a      *)
(* notifier's send returns True or False and never raises                  *)
(* (pushplus_notifier.py 51-76, dingtalk_notifier.py 68-84).               *)
(***************************************************************************)
\* the messages of one kind handed to the enabled channels, and what the
\* method returns when the channels answer ok
Send(kind, ok) ==
    [handed |-> (IF pushplus_enabled THEN <<[kind |-> kind, channel |-> "pushplus"]>> ELSE <<>>)
                \o (IF dingtalk_enabled /\ kind # "error"
                    THEN <<[kind |-> kind, channel |-> "dingtalk"]>> ELSE <<>>),
     results |-> [pushplus |-> pushplus_enabled /\ ok.pushplus,
                  dingtalk |-> dingtalk_enabled /\ kind # "error" /\ ok.dingtalk]]

\* notify_critical_lead refusing only above the cap
notify_critical_lead_above(m, ok) ==
    IF ~ENABLE_INSTANT_ALERTS \/ m.count > max_instant_per_hour
    THEN [count |-> m.count, log |-> m.log,
          results |-> [pushplus |-> FALSE, dingtalk |-> FALSE]]
    ELSE [count |-> m.count + 1, log |-> m.log \o Send("critical", ok).handed,
          results |-> Send("critical", ok).results]

\* lines 39-71, on the manager state m = [count, log]
notify_critical_lead(m, ok) ==
    IF ~ENABLE_INSTANT_ALERTS \/ m.count >= max_instant_per_hour
    THEN [count |-> m.count, log |-> m.log,
          results |-> [pushplus |-> FALSE, dingtalk |-> FALSE]]
    ELSE [count |-> m.count + 1, log |-> m.log \o Send("critical", ok).handed,
          results |-> Send("critical", ok).results]

\* lines 145-182: one alert per Critical lead, one batch for the High leads;
\* oks[i] is what the channels answer to the i-th alert, high_ok to the batch
process_scored_leads(m, leads, oks, high_ok) ==
    LET critical_leads == SelectSeq(leads, LAMBDA l : l["priority"] = "Critical")
        high_leads == SelectSeq(leads, LAMBDA l : l["priority"] = "High")
        RECURSIVE Each(_, _, _)
        Each(i, state, notified) ==
            IF i > Len(critical_leads) THEN [state EXCEPT !.results = notified]
            ELSE LET WithResult(r) ==
                         Each(i + 1, r, IF r.results.pushplus \/ r.results.dingtalk
                                        THEN notified + 1 ELSE notified)
                 IN  WithResult(notify_critical_lead(state, oks[i]))
        Batch(after) ==
            LET batch_sent == ENABLE_INSTANT_ALERTS /\ Len(high_leads) # 0
                result == Send("high", high_ok).results
            IN  [count |-> after.count,
                 log |-> IF batch_sent THEN after.log \o Send("high", high_ok).handed
                         ELSE after.log,
                 stats |-> [critical_notified |-> after.results,
                            high_notified |->
                                IF batch_sent /\ (result.pushplus \/ result.dingtalk)
                                THEN Len(high_leads) ELSE 0,
                            total |-> Len(leads)]]
    IN  Batch(Each(1, [count |-> m.count, log |-> m.log, results |-> 0], 0))

\* a caller asks for the alert of one Critical lead
NotifyCriticalLead ==
    /\ Len(notify_log) < MaxNotifyLog
    /\ \E ok \in [pushplus : BOOLEAN, dingtalk : BOOLEAN] :
          LET Done(r) == /\ instant_alerts_count' = r.count
                         /\ notify_log' = r.log
                         /\ notify_result' = r.results
          IN  Done(notify_critical_lead([count |-> instant_alerts_count,
                                         log |-> notify_log], ok))
    /\ UNCHANGED <<configVars, main_pc, all_records, main_unique_records,
                   main_scored_records, summaries, daily_stats, store, runs>>
    /\ UNCHANGED outsideMain

\* a caller hands over a list of scored leads; the channels answer every
\* alert of the call alike
ProcessScoredLeads ==
    /\ Len(notify_log) < MaxNotifyLog
    /\ \E leads \in SeqsUpTo({[priority |-> p] : p \in {"Critical", "High", "Low"}},
                              MaxLeads) :
       \E ok \in [pushplus : BOOLEAN, dingtalk : BOOLEAN] :
          LET Done(r) == /\ instant_alerts_count' = r.count
                         /\ notify_log' = r.log
                         /\ notify_result' = r.stats
          IN  Done(process_scored_leads([count |-> instant_alerts_count,
                                         log |-> notify_log], leads,
                                        [i \in 1..MaxLeads |-> ok], ok))
    /\ UNCHANGED <<configVars, main_pc, all_records, main_unique_records,
                   main_scored_records, summaries, daily_stats, store, runs>>
    /\ UNCHANGED outsideMain

\* lines 184-187
reset_hourly_counter ==
    /\ Len(notify_log) < MaxNotifyLog
    /\ instant_alerts_count' = 0
    /\ notify_log' = Append(notify_log, [kind |-> "reset", channel |-> "none"])
    /\ UNCHANGED <<configVars, notify_result, main_pc, all_records,
                   main_unique_records, main_scored_records, summaries, daily_stats,
                   store, runs>>
    /\ UNCHANGED outsideMain

(***************************************************************************)
(* DataProcessor.classify_records and get_statistics, the append methods   *)
(* of SheetsManager, and main().                                           *)
(***************************************************************************)
\* data_processor.py 149-172
classify_records(list) ==
    LET kind(record) ==
            LET rtype == lower(Get(record, "type"))
            IN  IF rtype \in {<<"U+65B0", "U+5EFA">>, <<"n", "e", "w">>, <<"U+65B0", "U+5EFA", "U+9879", "U+76EE">>, <<"n", "e", "w", "_", "p", "r", "o", "j", "e", "c", "t">>}
                THEN "new_projects"
                ELSE IF rtype \in {<<"U+4EA4", "U+6613">>, <<"s", "a", "l", "e">>, <<"U+4E70", "U+5356">>, <<"U+51FA", "U+552E">>}
                THEN "sales"
                ELSE IF rtype \in {<<"U+62DB", "U+6807">>, <<"t", "e", "n", "d", "e", "r">>, <<"r", "f", "p">>, <<"r", "f", "q">>}
                THEN "tenders"
                ELSE "new_projects"
    IN  [k \in {"new_projects", "sales", "tenders"} |->
            SelectSeq(list, LAMBDA record : kind(record) = k)]

\* sheets_manager.py 158-295: the cells of the appended rows that the model
\* keeps: address (column F), licence (column H) and name of a new project,
\* the name of a sale and of a tender (their rows have no licence or address)
append_rows(rows, classified) ==
    LET NewProjectRow(record) ==
            [address |-> Get(record, "address"),
             license_number |-> Get(record, "license_number"),
             name |-> Get(record, "name")]
        NameRow(record) == [name |-> Get(record, "name")]
        Rows(list, Row(_)) == [i \in 1..Len(list) |-> Row(list[i])]
    IN  [new_projects |-> rows.new_projects \o Rows(classified.new_projects, NewProjectRow),
         sales |-> rows.sales \o Rows(classified.sales, NameRow),
         tenders |-> rows.tenders \o Rows(classified.tenders, NameRow)]

\* get_statistics with the two country tests made independent of each other
get_statistics_both(list) ==
    LET Add(stats, key) == [stats EXCEPT ![key] = @ + 1]
        ByCountry(stats, record) ==
            LET country == lower(Get(record, "country"))
                rtype == lower(Get(record, "type"))
                ByType(before, new, sales, tenders) ==
                    IF rtype \in {<<"U+65B0", "U+5EFA">>, <<"n", "e", "w">>, <<"n", "e", "w", "_", "p", "r", "o", "j", "e", "c", "t">>}
                    THEN Add(before, new)
                    ELSE IF rtype \in {<<"U+4EA4", "U+6613">>, <<"s", "a", "l", "e">>}
                    THEN Add(before, sales)
                    ELSE IF rtype \in {<<"U+62DB", "U+6807">>, <<"t", "e", "n", "d", "e", "r">>}
                    THEN Add(before, tenders)
                    ELSE before
                Canada ==
                    IF Contains(country, <<"c", "a", "n", "a", "d", "a">>) \/ Contains(country, FlagCanada)
                    THEN ByType(stats, "canada_new", "canada_sales", "canada_tenders")
                    ELSE stats
            IN  IF Contains(country, <<"a", "u", "s", "t", "r", "a", "l", "i", "a">>) \/ Contains(country, FlagAustralia)
                THEN ByType(Canada, "australia_new", "australia_sales", "australia_tenders")
                ELSE Canada
        ByPriority(stats, record) ==
            IF record["priority"] = "Critical" THEN Add(stats, "critical_count")
            ELSE IF record["priority"] = "High" THEN Add(stats, "high_count")
            ELSE IF record["priority"] = "Medium" THEN Add(stats, "medium_count")
            ELSE Add(stats, "low_count")
        RECURSIVE Loop(_, _)
        Loop(i, stats) ==
            IF i > Len(list) THEN stats
            ELSE Loop(i + 1, ByPriority(ByCountry(stats, list[i]), list[i]))
    IN  Loop(1, [k \in {"canada_new", "canada_sales", "canada_tenders",
                        "australia_new", "australia_sales", "australia_tenders",
                        "critical_count", "high_count", "medium_count", "low_count",
                        "total"} |-> IF k = "total" THEN Len(list) ELSE 0])

\* data_processor.py 214-269; a priority is one of the scorers' four words,
\* whose lower-case forms the last if-chain compares with
get_statistics(list) ==
    LET Add(stats, key) == [stats EXCEPT ![key] = @ + 1]
        ByCountry(stats, record) ==
            LET country == lower(Get(record, "country"))
                rtype == lower(Get(record, "type"))
                ByType(new, sales, tenders) ==
                    IF rtype \in {<<"U+65B0", "U+5EFA">>, <<"n", "e", "w">>, <<"n", "e", "w", "_", "p", "r", "o", "j", "e", "c", "t">>}
                    THEN Add(stats, new)
                    ELSE IF rtype \in {<<"U+4EA4", "U+6613">>, <<"s", "a", "l", "e">>}
                    THEN Add(stats, sales)
                    ELSE IF rtype \in {<<"U+62DB", "U+6807">>, <<"t", "e", "n", "d", "e", "r">>}
                    THEN Add(stats, tenders)
                    ELSE stats
            IN  IF Contains(country, <<"c", "a", "n", "a", "d", "a">>) \/ Contains(country, FlagCanada)
                THEN ByType("canada_new", "canada_sales", "canada_tenders")
                ELSE IF Contains(country, <<"a", "u", "s", "t", "r", "a", "l", "i", "a">>) \/ Contains(country, FlagAustralia)
                THEN ByType("australia_new", "australia_sales", "australia_tenders")
                ELSE stats
        ByPriority(stats, record) ==
            IF record["priority"] = "Critical" THEN Add(stats, "critical_count")
            ELSE IF record["priority"] = "High" THEN Add(stats, "high_count")
            ELSE IF record["priority"] = "Medium" THEN Add(stats, "medium_count")
            ELSE Add(stats, "low_count")
        RECURSIVE Loop(_, _)
        Loop(i, stats) ==
            IF i > Len(list) THEN stats
            ELSE Loop(i + 1, ByPriority(ByCountry(stats, list[i]), list[i]))
    IN  Loop(1, [k \in {"canada_new", "canada_sales", "canada_tenders",
                        "australia_new", "australia_sales", "australia_tenders",
                        "critical_count", "high_count", "medium_count", "low_count",
                        "total"} |-> IF k = "total" THEN Len(list) ELSE 0])

\* The records the fetchers of a run of main() hand over, seen as they are
\* after processing: of each kind and country, and of neither.
MainRecords ==
    { [name |-> <<"K", "i", "d", "s">>, type |-> <<"n", "e", "w", "_", "p", "r", "o", "j", "e", "c", "t">>, country |-> FlagCanada \o <<" ", "C", "a", "n", "a", "d", "a">>],
      [name |-> <<"T", "o", "t", "s">>, type |-> <<"S", "a", "l", "e">>, country |-> <<"C", "a", "n", "a", "d", "a", " ", "/", " ", "A", "u", "s", "t", "r", "a", "l", "i", "a">>],
      [name |-> <<"Y", "a", "r", "d">>, type |-> <<"t", "e", "n", "d", "e", "r">>, country |-> FlagAustralia \o <<" ", "A", "u", "s", "t", "r", "a", "l", "i", "a">>],
      [name |-> <<"B", "i", "d", "s">>, type |-> <<"r", "f", "p">>, country |-> <<"U", "S", "A">>] }

\* send_daily_summary handing the summary to no channel
SendDailySummaryDropped(summary_data) ==
    /\ summaries' = summaries
    /\ notify_log' = notify_log

\* notifier.send_daily_summary(summary_data), notification_manager.py 99-119
SendDailySummary(summary_data) ==
    /\ summaries' = Append(summaries, summary_data)
    /\ notify_log' = notify_log \o Send("summary", [pushplus |-> TRUE, dingtalk |-> TRUE]).handed

\* main(): one run, a step at a time; an exception in a step ends the run in
\* the except branch of lines 269-280
main ==
    \* lines 86-143: the enabled sources are fetched; a failing source is skipped
    \/ /\ main_pc = "start"
       /\ all_records' \in SeqsUpTo(MainRecords, MaxFetched)
       /\ main_pc' = "fetched"
       /\ UNCHANGED <<configVars, instant_alerts_count, notify_log, notify_result, main_unique_records,
                      main_scored_records, summaries, daily_stats, store, runs>>
       /\ UNCHANGED outsideMain
    \* lines 146-162: nothing fetched
    \/ /\ main_pc = "fetched" /\ Len(all_records) = 0
       /\ SendDailySummary([canada |-> 0, australia |-> 0, high_priority |-> 0])
       /\ main_pc' = "done"
       /\ UNCHANGED <<configVars, instant_alerts_count, notify_result, all_records, main_unique_records,
                      main_scored_records, daily_stats, store, runs>>
       /\ UNCHANGED outsideMain
    \* lines 165-170: process_records, then remove_duplicates: the records
    \* that are valid and not duplicates, in their order
    \/ /\ main_pc = "fetched" /\ Len(all_records) # 0
       /\ LET RECURSIVE SubLists(_)
              SubLists(list) ==
                  IF list = <<>> THEN {<<>>}
                  ELSE LET rest == SubLists(Tail(list))
                       IN  rest \cup {<<Head(list)>> \o t : t \in rest}
          IN  main_unique_records' \in SubLists(all_records)
       /\ main_pc' = "unique"
       /\ UNCHANGED <<configVars, instant_alerts_count, notify_log, notify_result, all_records,
                      main_scored_records, summaries, daily_stats, store, runs>>
       /\ UNCHANGED outsideMain
    \* lines 172-187: nothing left
    \/ /\ main_pc = "unique" /\ Len(main_unique_records) = 0
       /\ SendDailySummary([canada |-> 0, australia |-> 0, high_priority |-> 0])
       /\ main_pc' = "done"
       /\ UNCHANGED <<configVars, instant_alerts_count, notify_result, all_records, main_unique_records,
                      main_scored_records, daily_stats, store, runs>>
       /\ UNCHANGED outsideMain
    \* lines 189-197: the list is cut to MAX_RECORDS_PER_RUN and scored; each
    \* record gets the priority its scorer gives it
    \/ /\ main_pc = "unique" /\ Len(main_unique_records) # 0
       /\ LET Scored(cut) ==
                  /\ main_unique_records' = cut
                  /\ \E priority \in [1..Len(cut) -> {"Critical", "High", "Medium", "Low"}] :
                        main_scored_records' =
                            [i \in 1..Len(cut) |->
                                [k \in DOMAIN cut[i] \cup {"priority"} |->
                                    IF k = "priority" THEN priority[i] ELSE cut[i][k]]]
          IN  Scored(SubSeq(main_unique_records, 1,
                            Min(Len(main_unique_records), MAX_RECORDS_PER_RUN)))
       /\ main_pc' = "scored"
       /\ UNCHANGED <<configVars, instant_alerts_count, notify_log, notify_result, all_records,
                      summaries, daily_stats, store, runs>>
       /\ UNCHANGED outsideMain
    \* lines 206-226: with a SheetsManager, the rows and the statistics are
    \* written to the spreadsheet
    \/ /\ main_pc = "scored"
       /\ IF sheets
          THEN /\ store' = append_rows(store, classify_records(main_scored_records))
               /\ daily_stats' = get_statistics(main_scored_records)
          ELSE UNCHANGED <<store, daily_stats>>
       /\ main_pc' = "saved"
       /\ UNCHANGED <<configVars, instant_alerts_count, notify_log, notify_result, all_records,
                      main_unique_records, main_scored_records, summaries, runs>>
       /\ UNCHANGED outsideMain
    \* lines 229-230: the instant alerts
    \/ /\ main_pc = "saved"
       /\ \E ok \in {[pushplus |-> b, dingtalk |-> b] : b \in BOOLEAN} :
             LET Done(r) == /\ instant_alerts_count' = r.count
                            /\ notify_log' = r.log
                            /\ notify_result' = r.stats
             IN  Done(process_scored_leads([count |-> instant_alerts_count,
                                            log |-> notify_log],
                                           main_scored_records,
                                           [i \in 1..MaxFetched |-> ok], ok))
       /\ main_pc' = "alerted"
       /\ UNCHANGED <<configVars, all_records,
                      main_unique_records, main_scored_records, summaries, daily_stats,
                      store, runs>>
       /\ UNCHANGED outsideMain
    \* lines 238-262: the statistics, and the daily summary built from them
    \/ /\ main_pc = "alerted"
       /\ daily_stats' = get_statistics(main_scored_records)
       /\ LET Summary(s) ==
                  SendDailySummary(
                      [canada |-> s.canada_new + s.canada_sales + s.canada_tenders,
                       australia |-> s.australia_new + s.australia_sales
                                       + s.australia_tenders,
                       high_priority |-> Min(5, s.critical_count + s.high_count)])
          IN  Summary(get_statistics(main_scored_records))
       /\ main_pc' = "done"
       /\ UNCHANGED <<configVars, instant_alerts_count, notify_result, all_records, main_unique_records,
                      main_scored_records, store, runs>>
       /\ UNCHANGED outsideMain
    \* lines 269-280: a step raised; a new NotificationManager sends the error
    \* alert, to PushPlus only, and the run exits with status 1
    \/ /\ main_pc \in {"fetched", "unique", "scored", "saved", "alerted"}
       /\ notify_log' = notify_log \o Send("error", [pushplus |-> TRUE, dingtalk |-> TRUE]).handed
       /\ main_pc' = "error"
       /\ UNCHANGED <<configVars, instant_alerts_count, notify_result, all_records, main_unique_records,
                      main_scored_records, summaries, daily_stats, store, runs>>
       /\ UNCHANGED outsideMain

\* main.py 206-217 in a run whose Deduplicator has returned: the records it
\* kept are classified and appended to the sheets (scoring, in between, leaves
\* their type, licence and address alone)
AppendToStore ==
    /\ main_pc = "start"
    /\ pc = "idle" /\ calls > 0
    /\ store' = append_rows(store, classify_records(returned.unique_records))
    /\ main_pc' = "saved"
    /\ UNCHANGED <<configVars, instant_alerts_count, notify_log, notify_result,
                   all_records, main_unique_records, main_scored_records, summaries,
                   daily_stats, runs>>
    /\ UNCHANGED outsideMain

\* the next run of main(): deduplicator = Deduplicator(sheets) (main.py 62,
\* deduplicator.py 19-27), the fetchers handing over the same batch
NewRun ==
    /\ main_pc = "saved"
    /\ runs < MaxRuns
    /\ runs' = runs + 1
    /\ main_pc' = "start"
    /\ _existing_licenses' = {} /\ _existing_addresses' = {} /\ _initialized' = FALSE
    /\ calls' = 0
    /\ UNCHANGED <<<<sheet, sheets_manager, license_queries, address_queries, license_outcome, address_outcome>>, batch, pc, records, idx, unique_records, seen_licenses,
                   seen_addresses, seen_names_addresses, duplicates, returned, logged>>
    /\ UNCHANGED <<configVars, instant_alerts_count, notify_log, notify_result,
                   all_records, main_unique_records, main_scored_records, summaries,
                   daily_stats, store>>
    /\ UNCHANGED <<scoreVars, batchVars, processorVars, withinVars>>

(***************************************************************************)
(* Specifications.                                                         *)
(***************************************************************************)
\* The state of the components that a specification leaves alone: every
\* component but those named in active is as it is before its first call.
Idle(active) ==
    /\ IF "provider" \in active THEN TRUE
       ELSE batch = <<>> /\ sheets_manager = "none" /\ sheet = 1
    /\ IF "deduplicator" \in active THEN TRUE
       ELSE /\ license_queries = 0 /\ address_queries = 0
            /\ license_outcome = "none" /\ address_outcome = "none"
            /\ _existing_licenses = {} /\ _existing_addresses = {} /\ _initialized = FALSE
            /\ calls = 0 /\ pc = "idle" /\ records = <<>> /\ idx = 0
            /\ unique_records = <<>> /\ seen_licenses = {} /\ seen_addresses = {}
            /\ seen_names_addresses = {} /\ duplicates = NoDuplicates
            /\ returned = [unique_records |-> <<>>] /\ logged = NoDuplicates
    /\ IF "scorer" \in active THEN TRUE
       ELSE /\ thresholds = [CRITICAL_THRESHOLD |-> CRITICAL_THRESHOLD,
                             HIGH_THRESHOLD |-> HIGH_THRESHOLD,
                             MEDIUM_THRESHOLD |-> MEDIUM_THRESHOLD]
            /\ analyzer = "Scorer" /\ enabled = FALSE
    /\ IF "record" \in active THEN TRUE
       ELSE /\ project = Project(NoCapacity, <<<<>>, <<>>>>, <<<<>>, <<>>>>, <<<<>>, <<>>>>)
            /\ response = NoResponse /\ scored = FALSE
    /\ IF "batch" \in active THEN TRUE
       ELSE /\ projects = <<>> /\ batch_pc = "idle" /\ position = 0 /\ results = <<>>
            /\ score_distribution = NoDistribution /\ attempts = <<>>
            /\ scored_records = <<>>
    /\ IF "normalize" \in active THEN TRUE
       ELSE /\ today = <<>> /\ raw_record = <<>> /\ normalized = <<>>
            /\ renormalized = <<>> /\ norm_pc = "idle"
    /\ IF "validate" \in active THEN TRUE
       ELSE /\ candidate = <<>> /\ candidate_type = "new_project"
            /\ validation = [is_valid |-> FALSE, errors |-> <<>>] /\ val_pc = "idle"
    /\ IF "process" \in active THEN TRUE
       ELSE /\ raw_records = <<>> /\ record_type = "new_project" /\ proc_pc = "none"
            /\ proc_i = 0 /\ processed = <<>> /\ errors = <<>> /\ dates_read = <<>>
            /\ returned_processed = <<>>
    /\ IF "within" \in active THEN TRUE
       ELSE /\ within_batch = <<>> /\ within_results = <<>> /\ within_pc = "none"
            /\ within_records = <<>> /\ within_idx = 0 /\ within_unique_records = <<>>
            /\ seen_ids = {}
    /\ IF "config" \in active THEN TRUE
       ELSE /\ pushplus_enabled = TRUE /\ dingtalk_enabled = TRUE
            /\ ENABLE_INSTANT_ALERTS = TRUE /\ max_instant_per_hour = 20
            /\ sheets = FALSE /\ MAX_RECORDS_PER_RUN = 100
    /\ IF "main" \in active THEN TRUE
       ELSE /\ instant_alerts_count = 0 /\ notify_log = <<>>
            /\ notify_result = [pushplus |-> FALSE, dingtalk |-> FALSE]
            /\ main_pc = "start" /\ all_records = <<>> /\ main_unique_records = <<>>
            /\ main_scored_records = <<>> /\ summaries = <<>> /\ daily_stats = <<>>
            /\ store = [new_projects |-> <<>>, sales |-> <<>>, tenders |-> <<>>]
            /\ runs = 1

\* One call on a fresh Deduplicator whose provider, if it has one, answers.
InitDedup ==
    /\ batch \in SeqsUpTo(RecordUniverse, MaxBatch)
    /\ \/ sheets_manager = "sheets" /\ sheet \in 1..Len(Sheets)
       \/ sheets_manager = "none" /\ sheet = 1
    /\ Idle({"provider"})

NextDedup ==
    \/ RemoveDuplicatesEmpty(1)
    \/ RemoveDuplicatesBegin(1, {"ok"})
    \/ LoopStep
    \/ RemoveDuplicatesReturn

SpecDedup == InitDedup /\ [][NextDedup]_vars

\* Up to MaxCalls calls on one Deduplicator, each with the caller's batch or with
\* an empty list, the provider's queries answering, failing inside the provider
\* or raising.
InitSeed ==
    /\ LET SeedRecords ==
               {r \in RecordUniverse :
                   /\ license_number_of(r) \in {<<>>, <<"O", "N", "-", "1", "0", "0", "1">>}
                   /\ address_of(r) \in {<<>>, <<"1", "2", " ", "m", "a", "i", "n", " ", "s", "t">>, <<"7", " ", "o", "a", "k", " ", "a", "v", "e">>}}
       IN  batch \in SeqsUpTo(SeedRecords, MaxSeedBatch)
    /\ \/ sheets_manager = "sheets" /\ sheet \in 1..Len(Sheets)
       \/ sheets_manager = "none" /\ sheet = 1
    /\ Idle({"provider"})

NextSeed ==
    \/ RemoveDuplicatesEmpty(MaxCalls)
    \/ RemoveDuplicatesBegin(MaxCalls, {"ok", "caught", "raised"})
    \/ LoopStep
    \/ RemoveDuplicatesReturn

SpecSeed == InitSeed /\ [][NextSeed]_vars

\* One record scored once, by the scorer main() chose: a Scorer, or a
\* ClaudeAnalyzer with the AI disabled or enabled.
InitScore ==
    /\ thresholds \in Configs
    /\ \/ analyzer = "Scorer" /\ enabled = FALSE
       \/ analyzer = "ClaudeAnalyzer" /\ enabled \in BOOLEAN
    /\ project \in Projects
    /\ response = NoResponse /\ scored = FALSE
    /\ Idle({"scorer", "record"})

NextScore ==
    \/ ScoreRecord
    \/ ScoreProject

SpecScore == InitScore /\ [][NextScore]_vars

\* One call of batch_score on the analyzer main() chose, with a list of up to
\* MaxScoreBatch records.
InitBatchScore ==
    /\ thresholds \in Configs
    /\ \/ analyzer = "Scorer" /\ enabled = FALSE
       \/ analyzer = "ClaudeAnalyzer" /\ enabled \in BOOLEAN
    /\ projects \in SeqsUpTo(BatchProjects, MaxScoreBatch)
    /\ batch_pc = "idle" /\ position = 0 /\ results = <<>>
    /\ score_distribution = NoDistribution /\ attempts = <<>> /\ scored_records = <<>>
    /\ Idle({"scorer", "batch"})

NextBatchScore ==
    \/ BatchScoreEmpty
    \/ BatchScoreBegin
    \/ BatchScoreStep
    \/ BatchScoreReturn

SpecBatchScore == InitBatchScore /\ [][NextBatchScore]_vars

\* One raw record normalized, and its normal form normalized once more.
InitNormalizeTwice ==
    /\ today = <<>> /\ raw_record \in RawRecords /\ normalized = <<>>
    /\ renormalized = <<>> /\ norm_pc = "raw"
    /\ Idle({"normalize"})

NextNormalizeTwice ==
    \/ NormalizeRecord
    \/ NormalizeAgain

SpecNormalize == InitNormalizeTwice /\ [][NextNormalizeTwice]_vars

\* One record validated as a record of one category.
InitValidateOnce ==
    /\ candidate \in Candidates /\ candidate_type \in RecordTypes
    /\ validation = [is_valid |-> FALSE, errors |-> <<>>] /\ val_pc = "called"
    /\ Idle({"validate"})

NextValidateOnce == ValidateRecord

SpecValidate == InitValidateOnce /\ [][NextValidateOnce]_vars

\* One call of process_records with a list of up to MaxRawBatch raw records.
InitProcessRecords ==
    /\ raw_records \in SeqsUpTo(BatchRecords, MaxRawBatch)
    /\ record_type \in {"new_project", "tender"}
    /\ proc_pc = "idle" /\ proc_i = 0 /\ processed = <<>> /\ errors = <<>>
    /\ dates_read = <<>> /\ returned_processed = <<>>
    /\ Idle({"process"})

NextProcessRecords ==
    \/ ProcessRecordsBegin
    \/ ProcessRecordsStep
    \/ ProcessRecordsReturn

SpecProcess == InitProcessRecords /\ [][NextProcessRecords]_vars

\* Up to MaxWithinCalls calls of dedupe_within_batch, the first on a list of up
\* to MaxWithinBatch records, each later one on the list the call before returned.
InitDedupeWithin ==
    /\ within_batch \in SeqsUpTo(WithinRecords, MaxWithinBatch)
    /\ within_results = <<>> /\ within_pc = "idle"
    /\ within_records = <<>> /\ within_idx = 0 /\ within_unique_records = <<>>
    /\ seen_ids = {}
    /\ Idle({"within"})

NextDedupeWithin ==
    \/ DedupeWithinBatchEmpty
    \/ DedupeWithinBatchBegin
    \/ DedupeWithinBatchStep
    \/ DedupeWithinBatchReturn

SpecDedupeWithin == InitDedupeWithin /\ [][NextDedupeWithin]_vars

\* One call of remove_duplicates on a batch of up to MaxDerivedBatch records
\* that carry, or do not carry, the fields of a scorer.
InitDerived ==
    /\ batch \in SeqsUpTo(DerivedRecords, MaxDerivedBatch)
    /\ \/ sheets_manager = "sheets" /\ sheet \in 1..Len(Sheets)
       \/ sheets_manager = "none" /\ sheet = 1
    /\ Idle({"provider"})

SpecDerived == InitDerived /\ [][NextDedup]_vars

\* Calls on one NotificationManager, of any configuration with a cap of up to
\* MaxCap alerts: alerts of single leads, lists of up to MaxLeads scored leads,
\* and resets of the counter.
InitNotify ==
    /\ pushplus_enabled \in BOOLEAN /\ dingtalk_enabled \in BOOLEAN
    /\ ENABLE_INSTANT_ALERTS \in BOOLEAN /\ max_instant_per_hour \in 0..MaxCap
    /\ sheets = FALSE /\ MAX_RECORDS_PER_RUN = 100
    /\ Idle({"config"})

NextNotify ==
    \/ NotifyCriticalLead
    \/ ProcessScoredLeads
    \/ reset_hourly_counter

SpecNotify == InitNotify /\ [][NextNotify]_vars

\* One run of main() that fetches up to MaxFetched records, with and without
\* a SheetsManager, cutting the list at one record or at 100.
InitMain ==
    /\ pushplus_enabled \in BOOLEAN /\ dingtalk_enabled = TRUE
    /\ ENABLE_INSTANT_ALERTS = TRUE /\ max_instant_per_hour = 1
    /\ sheets \in BOOLEAN /\ MAX_RECORDS_PER_RUN \in {1, 100}
    /\ Idle({"config"})

SpecMain == InitMain /\ [][main]_vars

\* Runs of main() one after the other on the same spreadsheet, each fetching
\* the same batch of up to MaxRunBatch processed records: the Deduplicator's
\* call, the rows appended, and the next run with its new Deduplicator.
InitRuns ==
    /\ LET RunRecords ==
               { [license_number |-> <<"O", "N", "-", "1", "0", "0", "1">>, name |-> <<"k", "i", "d", "s">>,
                  address |-> <<"1", "2", " ", "m", "a", "i", "n", " ", "s", "t">>, type |-> <<"n", "e", "w", "_", "p", "r", "o", "j", "e", "c", "t">>],
                 [license_number |-> <<"O", "N", "-", "2", "0", "0", "2">>, name |-> <<"t", "o", "t", "s">>,
                  address |-> <<"7", " ", "o", "a", "k", " ", "a", "v", "e">>, type |-> <<"s", "a", "l", "e">>],
                 [license_number |-> <<>>, name |-> <<"t", "o", "t", "s">>,
                  address |-> <<"2", " ", "m", "a", "i", "n", " ", "s", "t">>, type |-> <<"t", "e", "n", "d", "e", "r">>],
                 [license_number |-> <<>>, name |-> <<"k", "i", "d", "s">>,
                  address |-> <<>>, type |-> <<"n", "e", "w", "_", "p", "r", "o", "j", "e", "c", "t">>] }
       IN  batch \in SeqsUpTo(RunRecords, MaxRunBatch)
    /\ sheets_manager = "sheets" /\ sheet \in {1, 2}
    /\ Idle({"provider"})

NextRuns ==
    \/ RemoveDuplicatesBegin(1, {"ok"})
    \/ LoopStep
    \/ RemoveDuplicatesReturn
    \/ AppendToStore
    \/ NewRun

SpecRuns == InitRuns /\ [][NextRuns]_vars

(***************************************************************************)
(* Claims about the Deduplicator.  They restate the licence, the key and   *)
(* the addresses of a record from its fields, not through the operators of *)
(* the model above.                                                        *)
(***************************************************************************)
\* the last call was given a non-empty batch and has returned
Returned == pc = "idle" /\ calls > 0 /\ records # <<>>
\* one pass of the loop is taken
StepOf == pc = "loop" /\ idx <= Len(records) /\ idx' = idx + 1

ClaimLicense(r) == strip(Get(r, "license_number"))
ClaimAddress(r) == strip(lower(Get(r, "address")))
ClaimKey(r) == strip(lower(Get(r, "name"))) \o <<"|">> \o ClaimAddress(r)
\* some address of S has token-sort similarity >= 90 to address
NearMatch(address, S) == \E e \in NearMemo[address] : e \in S
\* the seed addresses and the addresses of the returned records before the j-th
SeenBefore(out, j) ==
    _existing_addresses \cup ({ClaimAddress(out[i]) : i \in 1..(j - 1)} \ {<<>>})
Counted == duplicates.license + duplicates.name_address + duplicates.fuzzy_address

NoLicenseDuplicates(out) ==
    \A j \in 1..Len(out) :
        ClaimLicense(out[j]) # <<>> =>
            /\ ClaimLicense(out[j]) \notin _existing_licenses
            /\ \A i \in 1..Len(out) : i # j => ClaimLicense(out[i]) # ClaimLicense(out[j])
NoKeyDuplicates(out) ==
    \A i, j \in 1..Len(out) : i < j => ClaimKey(out[i]) # ClaimKey(out[j])

C2Category(record) ==
    IF ClaimLicense(record) # <<>> /\ ClaimLicense(record) \in seen_licenses
    THEN "license"
    ELSE IF ClaimKey(record) \in seen_names_addresses
    THEN "name_address"
    ELSE IF /\ ClaimAddress(record) # <<>>
            /\ IF Cardinality(seen_addresses) <= LARGE_ADDRESS_SET
               THEN NearMatch(ClaimAddress(record), seen_addresses)
               ELSE ClaimAddress(record) \in seen_addresses
    THEN "fuzzy_address"
    ELSE "kept"

\* C2: every record goes to exactly one of kept, license, name_address and
\* fuzzy_address, the first whose check matches, so that the input is as long as
\* the output plus the three counts; a record whose licence is in the seed and
\* whose address is a seen address counts as license only.
C2_OneCategoryPerRecord ==
    /\ [](pc = "loop" => idx - 1 = Len(unique_records) + Counted)
    /\ [](Returned => Len(records) = Len(returned.unique_records) + Counted)
    /\ [][StepOf =>
            LET record == records[idx]
                c == C2Category(record)
            IN  /\ duplicates' = IF c = "kept" THEN duplicates
                                 ELSE [duplicates EXCEPT ![c] = @ + 1]
                /\ unique_records' = IF c = "kept" THEN Append(unique_records, record)
                                     ELSE unique_records
                /\ (/\ ClaimLicense(record) \in _existing_licenses
                    /\ ClaimAddress(record) \in seen_addresses)
                   => duplicates' = [duplicates EXCEPT !.license = @ + 1]
         ]_vars

\* the first record had its licence in the seed and its address in the seen
\* addresses, and was counted once, as license
C2_Witness ==
    /\ pc = "loop" /\ idx = 2
    /\ ClaimLicense(records[1]) \in _existing_licenses
    /\ ClaimAddress(records[1]) \in seen_addresses
    /\ duplicates = [license |-> 1, name_address |-> 0, fuzzy_address |-> 0]

\* C3 as stated: when a seed query failed (inside the provider, or by raising),
\* the batch is deduplicated with both seed sets empty.
C3_FailedSeedLeavesBothSetsEmpty ==
    (license_outcome \in {"caught", "raised"} \/ address_outcome \in {"caught", "raised"})
        => /\ _existing_licenses = {}
           /\ _existing_addresses = {}
           /\ (pc = "loop" /\ idx = 1) => (seen_licenses = {} /\ seen_addresses = {})

\* C4: over all the calls on one instance the provider is asked for each seed
\* set at most once.
C4_SeededAtMostOnce == license_queries <= 1 /\ address_queries <= 1

\* the second non-empty call is running, the first one's seeding having failed
C4_Witness ==
    /\ calls = 2 /\ pc = "loop"
    /\ returned.unique_records # <<>>
    /\ license_outcome = "raised"
    /\ license_queries = 1

\* C5 as stated: three records, two of licence ON-1001, no seed: the caller gets
\* the two kept records and the counts {license: 1, name_address: 0, fuzzy_address: 0}.
C5Batch ==
    << [license_number |-> <<"O", "N", "-", "1", "0", "0", "1">>, name |-> <<"k", "i", "d", "s">>, address |-> <<"1", "2", " ", "M", "a", "i", "n", " ", "S", "t">>],
       [license_number |-> <<"O", "N", "-", "1", "0", "0", "1">>, name |-> <<"t", "o", "t", "s">>, address |-> <<"7", " ", "o", "a", "k", " ", "a", "v", "e">>],
       [license_number |-> <<>>, name |-> <<"k", "i", "d", "s">>, address |-> <<"7", " ", "o", "a", "k", " ", "a", "v", "o">>] >>
C5_CallerGetsStatistics ==
    (Returned /\ records = C5Batch /\ _existing_licenses = {} /\ _existing_addresses = {})
        => /\ Len(returned.unique_records) = 2
           /\ "duplicates" \in DOMAIN returned
           /\ returned["duplicates"] = [license |-> 1, name_address |-> 0, fuzzy_address |-> 0]

\* s is t with some elements left out
RECURSIVE IsSubSeq(_, _)
IsSubSeq(s, t) ==
    IF s = <<>> THEN TRUE
    ELSE IF t = <<>> THEN FALSE
    ELSE IF Head(s) = Head(t) THEN IsSubSeq(Tail(s), Tail(t))
    ELSE IsSubSeq(s, Tail(t))

\* C6: the returned list is the caller's batch with some records left out, the
\* others unchanged and in their order, and the caller's batch is not changed.
C6_ReturnsSubListOfInput ==
    /\ [](pc = "loop" => IsSubSeq(unique_records, batch))
    /\ [](Returned => IsSubSeq(returned.unique_records, batch))
    /\ [][batch' = batch /\ (pc = "loop" => records' = records)]_vars

\* the first and the third of three records were returned, the first with an
\* address that is not in lower case
C6_Witness ==
    /\ Returned
    /\ Len(batch) = 3
    /\ returned.unique_records = <<batch[1], batch[3]>>
    /\ Get(batch[1], "address") # ClaimAddress(batch[1])

\* the record passes the licence check and the name+address check and has an address
ReachesFuzzyStep(record) ==
    /\ ~(ClaimLicense(record) # <<>> /\ ClaimLicense(record) \in seen_licenses)
    /\ ClaimKey(record) \notin seen_names_addresses
    /\ ClaimAddress(record) # <<>>
DroppedAsFuzzy ==
    /\ duplicates' = [duplicates EXCEPT !.fuzzy_address = @ + 1]
    /\ unique_records' = unique_records

C8_LargeAddressSetGuard ==
    [][StepOf =>
          LET record == records[idx]
              address == ClaimAddress(record)
              large == Cardinality(seen_addresses) > LARGE_ADDRESS_SET
              near == NearMatch(address, seen_addresses)
          IN  /\ (large /\ address # <<>> /\ address \in seen_addresses)
                    => (unique_records' = unique_records /\ Counted' = Counted + 1)
              /\ (large /\ ReachesFuzzyStep(record) /\ near /\ address \notin seen_addresses)
                    => (unique_records' = Append(unique_records, record)
                        /\ duplicates' = duplicates)
              /\ (~large /\ ReachesFuzzyStep(record) /\ near) => DroppedAsFuzzy
              /\ (~large /\ ReachesFuzzyStep(record) /\ ~near)
                    => unique_records' = Append(unique_records, record)
      ]_vars

\* with 1,001 seed addresses the first record, a near match of one of them, was kept
C8_Witness ==
    /\ pc = "loop" /\ idx = 2
    /\ Cardinality(_existing_addresses) > LARGE_ADDRESS_SET
    /\ unique_records = <<records[1]>>
    /\ ClaimAddress(records[1]) \notin _existing_addresses
    /\ NearMatch(ClaimAddress(records[1]), _existing_addresses)

(***************************************************************************)
(* Claims about the scorers.                                               *)
(***************************************************************************)
\* C9: whichever scorer handled the record, and on the AI path whatever the AI
\* answered, the ai_score written on the record is between 0 and 100.
C9_ScoreWithinBounds ==
    scored => (project["ai_score"] >= 0 /\ project["ai_score"] <= 100)

\* the AI answered with a score above 100 and the record carries 100
C9_Witness ==
    /\ scored /\ analyzer = "ClaudeAnalyzer" /\ enabled
    /\ response.kind = "dict" /\ response.score_type = "int" /\ response.score > 100
    /\ project["scoring_method"] = "claude_ai"
    /\ project["ai_score"] = 100

\* the priority the configured thresholds give a score
C10Priority(score) ==
    CASE score >= thresholds.CRITICAL_THRESHOLD -> "Critical"
      [] score < thresholds.CRITICAL_THRESHOLD /\ score >= thresholds.HIGH_THRESHOLD -> "High"
      [] score < thresholds.CRITICAL_THRESHOLD /\ score < thresholds.HIGH_THRESHOLD
           /\ score >= thresholds.MEDIUM_THRESHOLD -> "Medium"
      [] OTHER -> "Low"

\* C10: the priority of a scored record is the one its ai_score has under the
\* configured thresholds, on the rule path and on the AI path, whatever priority
\* the AI response carried.
C10_PriorityFromScoreOnly ==
    scored => project["priority"] = C10Priority(project["ai_score"])

\* the AI answered 'Low' with a score at or above the critical threshold and the
\* record is Critical
C10_Witness ==
    /\ scored /\ analyzer = "ClaudeAnalyzer" /\ enabled
    /\ project["scoring_method"] = "claude_ai"
    /\ response.priority = "Low"
    /\ project["ai_score"] >= thresholds.CRITICAL_THRESHOLD
    /\ project["priority"] = "Critical"

\* a sub-score of the record, or the one the rules give where the record has none
SubScoreOr(field, computed) == IF field \in DOMAIN project THEN project[field] ELSE computed
C11Sum ==
    SubScoreOr("capacity_score", _score_capacity(project["capacity"]))
    + SubScoreOr("location_score", _score_location(project["city"], project["country"]))
    + SubScoreOr("stage_score", _score_stage(project["type"], project["license_status"]))
    + _calculate_bonus(project)

\* C11: a scored record's ai_score is the sum of its capacity, location and stage
\* sub-scores and its bonus, cut to 0..100, under either scoring method.
C11_ScoreIsClampedSum ==
    scored => project["ai_score"] = Max(0, Min(100, C11Sum))

\* the record handed to the scorer, rebuilt from the fields scoring leaves alone
InputOf(record) ==
    [name |-> record["name"], city |-> record["city"], country |-> record["country"],
     capacity |-> record["capacity"], license_status |-> record["license_status"],
     notes |-> record["notes"], type |-> record["type"], ai_score |-> 50,
     priority |-> "Medium", ai_reasoning |-> <<>>, ai_recommendation |-> <<>>]

\* the AI call raised, or its text is not JSON, or the JSON has no numeric score
NoUsableScore(r) ==
    \/ r.kind \in {"error", "invalid_json", "not_dict"}
    \/ r.kind = "dict" /\ r.score_type \in {"missing", "null", "str"}

\* C12: when the AI is enabled and its call fails or gives no usable numeric
\* score, the record score_project returns is the one Scorer.score_record gives
\* for the same input, tagged rule_based.
C12_FallbackEqualsRuleBased ==
    (scored /\ analyzer = "ClaudeAnalyzer" /\ enabled /\ NoUsableScore(response))
        => /\ project["scoring_method"] = "rule_based"
           /\ project = score_record(InputOf(project))

\* the AI call made for a record failed
AttemptFailed(r) == r.kind \in {"error", "invalid_json", "not_dict"}
AiBatch == analyzer = "ClaudeAnalyzer" /\ enabled

\* C13: in a batch_score of the AI scorer every record handled had its own AI
\* call, whatever happened to the records before it; a record is rule_based
\* exactly when its own call failed; the loop always goes on, and the list
\* returned holds every input record, scored, in input order.
C13_FallbackIsPerRecord ==
    /\ AiBatch =>
         /\ Len(attempts) = Len(results)
         /\ \A i \in 1..Len(results) :
               /\ attempts[i].kind # "none"
               /\ results[i]["scoring_method"] =
                      IF AttemptFailed(attempts[i]) THEN "rule_based" ELSE "claude_ai"
    /\ batch_pc = "loop" =>
         /\ Len(results) = position - 1
         /\ ENABLED (BatchScoreStep \/ BatchScoreReturn)
    /\ batch_pc = "done" =>
         /\ Len(scored_records) = Len(projects)
         /\ \A i \in 1..Len(projects) :
               /\ scored_records[i] = projects[i]
               /\ "scoring_method" \in DOMAIN scored_records[i]
               /\ InputOf(scored_records[i]) \in BatchProjects

\* a returned batch of three: the first record's AI call failed, the second
\* and third were scored by the AI
C13_Witness ==
    /\ AiBatch /\ batch_pc = "done" /\ Len(scored_records) = 3
    /\ AttemptFailed(attempts[1])
    /\ scored_records[1]["scoring_method"] = "rule_based"
    /\ scored_records[2]["scoring_method"] = "claude_ai"
    /\ scored_records[3]["scoring_method"] = "claude_ai"

\* the tier table: the points of a known capacity, and of an unknown one
C17Tier(n) ==
    CASE n >= 80 -> 30
      [] n \in 60..79 -> 25
      [] n \in 40..59 -> 20
      [] n \in 20..39 -> 15
      [] n < 20 -> 10
C17Table(capacity) == IF capacity.type = "None" THEN 15 ELSE C17Tier(capacity.int)

\* C17: the capacity_score the Scorer writes is the one the tier table gives the
\* record's capacity: 30 from 80 up, 25 for 60..79, 20 for 40..59, 15 for
\* 20..39, 10 below 20 (0 included) and 15 for None; at the named points 80
\* gives 30, 79 and 60 give 25, 59 gives 20, 0 gives 10 and None gives 15.
C17_CapacityTierTable ==
    /\ (scored /\ "capacity_score" \in DOMAIN project /\ project["capacity"].type # "str")
          => project["capacity_score"] = C17Table(project["capacity"])
    /\ _score_capacity(IntCapacity(80)) = 30
    /\ _score_capacity(IntCapacity(79)) = 25
    /\ _score_capacity(IntCapacity(60)) = 25
    /\ _score_capacity(IntCapacity(59)) = 20
    /\ _score_capacity(IntCapacity(0)) = 10
    /\ _score_capacity(NoCapacity) = 15

\* a record of capacity 80 came back from the Scorer with capacity_score 30
C17_Witness ==
    /\ scored /\ analyzer = "Scorer"
    /\ project["capacity"] = IntCapacity(80)
    /\ project["capacity_score"] = 30

\* C20: a record whose license_status is "Renewal" or "renew", in any case, and
\* whose type carries no keyword gets the renewal group's stage_score, 15.
C20_RenewalStatusScoresFifteen ==
    ( /\ scored /\ "stage_score" \in DOMAIN project
      /\ project["type"] = <<>>
      /\ lower(project["license_status"]) \in {<<"r", "e", "n", "e", "w", "a", "l">>, <<"r", "e", "n", "e", "w">>} )
        => project["stage_score"] = 15

(***************************************************************************)
(* Claims about the DataProcessor and the DataValidator.                   *)
(***************************************************************************)

\* C14: normalization is idempotent: normalizing the result of normalize_record
\* once more gives the same record, field for field.
C14_NormalizationIdempotent ==
    norm_pc = "twice" => renormalized = normalized

\* the fields in which a second normalization differs from the first
C14_ChangedFields == {key \in DOMAIN normalized : renormalized[key] # normalized[key]}
\* C14, field by field: every field but phone and province is left as it was.
C14_OtherFieldsIdempotent ==
    norm_pc = "twice" =>
        /\ DOMAIN renormalized = DOMAIN normalized
        /\ C14_ChangedFields \subseteq {"phone", "province"}

\* normalize_record and the error list of its result, tabulated over the records
\* and the dates of the runs
C15NormalForms ==
    [record \in BatchRecords |-> [t \in Todays |-> normalize_record(record, t)]]
C15ErrorLists ==
    [record \in BatchRecords |-> [t \in Todays |-> [rtype \in RecordTypes |->
        validation_errors(C15NormalForms[record][t], rtype)]]]
\* the normal form the i-th record of the batch was given
C15Normalized(i) == C15NormalForms[raw_records[i]][dates_read[i]]
\* the i-th record normalizes without an exception and to a record whose
\* validation error list is empty
C15Passes(i) ==
    /\ ~normalize_raises(raw_records[i])
    /\ C15ErrorLists[raw_records[i]][dates_read[i]][record_type] = <<>>
\* the normal forms of the passing records among the first n, in input order
RECURSIVE C15Expected(_)
C15Expected(n) ==
    IF n = 0 THEN <<>>
    ELSE IF C15Passes(n) THEN Append(C15Expected(n - 1), C15Normalized(n))
    ELSE C15Expected(n - 1)

\* C15: process_records never raises, and what it has collected, and in the end
\* returns, is exactly the normalized forms, in input order, of the records
\* whose validation error list is empty; a record with errors, or whose
\* normalization throws, is left out and changes nothing for the others.
C15_ProcessRecordsKeepsExactlyValid ==
    /\ proc_pc # "raised"
    /\ proc_pc = "loop" => processed = C15Expected(proc_i - 1)
    /\ proc_pc = "returned" =>
          /\ returned_processed = C15Expected(Len(raw_records))
          /\ Len(returned_processed) + Len(errors) = Len(raw_records)

\* a batch of two returned: the first record's normalization threw, the second
\* was kept in its normal form
C15_Witness ==
    /\ proc_pc = "returned"
    /\ Len(raw_records) = 2
    /\ normalize_raises(raw_records[1])
    /\ Len(errors) = 1 /\ errors[1].index = 0
    /\ returned_processed = <<C15Normalized(2)>>

\* the required fields of the candidate's category that it lacks: the key is
\* absent, its value is None, or its value is blank once trimmed
C16MissingFields ==
    {field \in {required_fields(candidate_type)[i] :
                    i \in 1..Len(required_fields(candidate_type))} :
        \/ field \notin DOMAIN candidate
        \/ candidate[field] = None
        \/ \A i \in 1..Len(candidate[field]) : IsSpace(candidate[field][i])}
\* the positions of the error list that report the field as missing
C16ErrorsAbout(field) ==
    {i \in 1..Len(validation.errors) : validation.errors[i] = <<"missing", field>>}
C16MissingErrors ==
    {i \in 1..Len(validation.errors) : validation.errors[i][1] = "missing"}

C18Tuple(record) ==
    <<strip(lower(Get(record, "license_number"))), strip(lower(Get(record, "name"))),
      strip(lower(Get(record, "address"))), strip(lower(Get(record, "city"))),
      strip(lower(Get(record, "country")))>>
\* the first record, in order, of each distinct tuple among the first n
RECURSIVE C18FirstPerTuple(_, _)
C18FirstPerTuple(list, n) ==
    IF n = 0 THEN <<>>
    ELSE IF \E j \in 1..(n - 1) : C18Tuple(list[j]) = C18Tuple(list[n])
         THEN C18FirstPerTuple(list, n - 1)
         ELSE Append(C18FirstPerTuple(list, n - 1), list[n])

\* C18: dedupe_within_batch returns, in the original order, the first record of
\* each distinct tuple (license_number, name, address, city, country), the
\* fields compared lower-cased and trimmed, and a second application returns
\* the list of the first.
C18_FirstPerDistinctTuple ==
    /\ Len(within_results) >= 1 =>
          within_results[1] = C18FirstPerTuple(within_batch, Len(within_batch))
    /\ Len(within_results) >= 2 => within_results[2] = within_results[1]

\* the second half of C18 alone: applying dedupe_within_batch twice gives the
\* list of applying it once
C18_TwiceIsOnce ==
    Len(within_results) >= 2 => within_results[2] = within_results[1]

(***************************************************************************)
(* Claims about remove_duplicates and the fields scoring adds.              *)
(***************************************************************************)
\* what two batches must agree on, position by position
C19Projection(list) ==
    [i \in 1..Len(list) |->
        [license_number |-> Get(list[i], "license_number"),
         name |-> Get(list[i], "name"), address |-> Get(list[i], "address")]]

\* What becomes of the first n records, computed from the projection and the
\* seed sets alone: the positions kept, the counts, and the licences, keys and
\* addresses seen.
RECURSIVE C19After(_, _)
C19After(proj, n) ==
    IF n = 0
    THEN [kept |-> <<>>, counts |-> NoDuplicates, licenses |-> _existing_licenses,
          keys |-> {}, addresses |-> _existing_addresses]
    ELSE LET before == C19After(proj, n - 1)
             license == ClaimLicense(proj[n])
             address == ClaimAddress(proj[n])
             licenses == IF license # <<>> THEN before.licenses \cup {license}
                         ELSE before.licenses
             near == IF Cardinality(before.addresses) <= LARGE_ADDRESS_SET
                     THEN NearMatch(address, before.addresses)
                     ELSE address \in before.addresses
         IN  IF license # <<>> /\ license \in before.licenses
             THEN [before EXCEPT !.counts.license = @ + 1]
             ELSE IF ClaimKey(proj[n]) \in before.keys
             THEN [before EXCEPT !.counts.name_address = @ + 1, !.licenses = licenses]
             ELSE IF address # <<>> /\ near
             THEN [before EXCEPT !.counts.fuzzy_address = @ + 1, !.licenses = licenses,
                                 !.keys = @ \cup {ClaimKey(proj[n])}]
             ELSE [before EXCEPT !.kept = Append(@, n), !.licenses = licenses,
                                 !.keys = @ \cup {ClaimKey(proj[n])},
                                 !.addresses = IF address # <<>> THEN @ \cup {address}
                                               ELSE @]

\* C19: which positions of a batch remove_duplicates keeps, and the count per
\* category, are a function of the license_number, name and address at each
\* position and of the seed sets; two batches that agree on these and differ
\* in ai_score, priority, sub-scores, scoring_method or ai_reasoning keep and
\* drop the same positions with the same counts.
C19_DedupIgnoresDerivedFields ==
    Returned =>
        LET outcome == C19After(C19Projection(batch), Len(batch))
        IN  /\ returned.unique_records =
                   [i \in 1..Len(outcome.kept) |-> batch[outcome.kept[i]]]
            /\ duplicates = outcome.counts

\* two records that agree on the three fields and differ in score, priority and
\* scoring method: the first was kept, the second dropped as name_address
C19_Witness ==
    /\ Returned
    /\ Len(batch) = 2
    /\ C19Projection(batch)[1] = C19Projection(batch)[2]
    /\ "priority" \in DOMAIN batch[1] /\ batch[1]["priority"] = "High"
    /\ "priority" \in DOMAIN batch[2] /\ batch[2]["priority"] = "Critical"
    /\ returned.unique_records = <<batch[1]>>
    /\ duplicates = [license |-> 0, name_address |-> 1, fuzzy_address |-> 0]

(***************************************************************************)
(* Further claims about the scorers.                                       *)
(***************************************************************************)
\* the keyword bonus as the claim words it: 5 for a government keyword in the
\* name or the notes, and 5 more for a school or community keyword
C21Bonus(record) ==
    LET Has(keys) ==
            \E k \in keys : \/ Contains(lower(record["name"]), k)
                            \/ Contains(lower(record["notes"]), k)
    IN  (IF Has({<<"g", "o", "v", "e", "r", "n", "m", "e", "n", "t">>, <<"p", "u", "b", "l", "i", "c">>, <<"m", "u", "n", "i", "c", "i", "p", "a", "l">>, <<"U+653F", "U+5E9C">>}) THEN 5 ELSE 0)
        + (IF Has({<<"s", "c", "h", "o", "o", "l">>, <<"c", "o", "m", "m", "u", "n", "i", "t", "y">>, <<"U+5B66", "U+6821">>, <<"U+793E", "U+533A">>}) THEN 5 ELSE 0)
\* the component results and the bonus of every record the scorers are handed
C21Components ==
    [p \in Projects |->
        [capacity |-> _score_capacity(p["capacity"]),
         location |-> _score_location(p["city"], p["country"]),
         stage |-> _score_stage(p["type"], p["license_status"]),
         bonus |-> C21Bonus(p)]]

C23_OutputHasPlaceholderScore ==
    norm_pc \in {"once", "twice"} =>
        (normalized["ai_score"] = 50 /\ normalized["priority"] = "Medium")

\* YYYY-MM-DD: four digits, two digits and two digits, with dashes between
C24Canonical(s) ==
    /\ Len(s) = 10
    /\ s[5] = "-" /\ s[8] = "-"
    /\ \A i \in {1, 2, 3, 4, 6, 7, 9, 10} : IsDigit(s[i])
\* the text matches one of the six input formats of the normalizer
C24MatchesInputFormat(s) ==
    \E fmt \in { <<"%Y", "-", "%m", "-", "%d">>, <<"%Y", "/", "%m", "/", "%d">>,
                 <<"%d", "/", "%m", "/", "%Y">>, <<"%m", "/", "%d", "/", "%Y">>,
                 <<"%Y", "-", "%m", "-", "%d", " ", "%H", ":", "%M", ":", "%S">>,
                 <<"%Y", "%m", "%d">> } : strptime(strip(s), fmt).ok
\* what the normalizer made of the date of each record, and whether the claim's
\* account of it is right: a date in an input format comes out as YYYY-MM-DD,
\* any other comes out unchanged and the validator rejects the record
C24DateHandled ==
    [record \in BatchRecords |-> [t \in Todays |-> [rtype \in RecordTypes |->
        LET given == GetOr(record, "discovered_date", None)
            out == C15NormalForms[record][t]["discovered_date"]
        IN  IF Falsy(given) THEN out = t
            ELSE IF C24MatchesInputFormat(given) THEN C24Canonical(out)
            ELSE out = given /\ C15ErrorLists[record][t][rtype] # <<>>]]]
\* every record of the returned list has a canonical discovered_date
C24_ReturnedDatesCanonical ==
    proc_pc = "returned" =>
        \A i \in 1..Len(returned_processed) :
            C24Canonical(returned_processed[i]["discovered_date"])

\* C24: every record process_records returns has its discovered_date in the
\* form YYYY-MM-DD: the normalizer re-emits a date that matches one of its six
\* input formats as YYYY-MM-DD and passes any other through unchanged, which
\* the validator then rejects.
C24_DatesCanonicalAfterNormalizeAndValidate ==
    /\ C24_ReturnedDatesCanonical
    /\ proc_pc \in {"loop", "returned"} =>
          \A i \in 1..(proc_i - 1) :
              normalize_raises(raw_records[i])
              \/ C24DateHandled[raw_records[i]][dates_read[i]][record_type]

\* the record scored on its own, by the analyzer of the batch, the AI call
\* ending as r
C25Alone(record, r) ==
    IF AiBatch THEN score_project(InputOf(record), r) ELSE score_record(InputOf(record))
\* the number of results of one priority
C25Count(p) == Cardinality({i \in 1..Len(results) : results[i]["priority"] = p})
C25PerRecord ==
    /\ batch_pc \in {"loop", "done"} =>
          /\ Len(results) = Max(position, 1) - 1
          /\ \A i \in 1..Len(results) :
                /\ results[i] = C25Alone(results[i], attempts[i])
                /\ results[i] = projects[i]
          /\ \A p \in DOMAIN score_distribution : score_distribution[p] = C25Count(p)
          /\ score_distribution["Critical"] + score_distribution["High"]
               + score_distribution["Medium"] + score_distribution["Low"] = Len(results)
    /\ batch_pc = "done" =>
          /\ scored_records = results
          /\ Len(scored_records) = Len(projects)

\* C25: batch_score of either scorer returns one scored record per input
\* record, in input order; each is the record scored on its own (with the AI
\* answer its own call got), whatever the other records and their order are;
\* the four tallies of the priority histogram count the results of each
\* priority and sum to the number of records.
C25_BatchScoreIsPerRecord ==
    /\ []C25PerRecord
    /\ [][/\ Len(projects') = Len(projects)
          /\ \A i \in 1..Len(projects) : InputOf(projects'[i]) = InputOf(projects[i])]_vars

\* a returned AI batch of three that holds both records, in both orders of
\* appearance, with different answers to the same record
C25_Witness ==
    /\ AiBatch /\ batch_pc = "done" /\ Len(scored_records) = 3
    /\ scored_records[1]["name"] # scored_records[2]["name"]
    /\ scored_records[1]["name"] = scored_records[3]["name"]
    /\ scored_records[1]["scoring_method"] = "rule_based"
    /\ scored_records[3]["scoring_method"] = "claude_ai"
    /\ scored_records[1]["priority"] # scored_records[2]["priority"]
    /\ score_distribution["Critical"] = 2

\* record a matches record b: the same licence, the same name|address key, or
\* addresses at similarity >= 90
C27Matches(a, b) ==
    \/ ClaimLicense(a) # <<>> /\ ClaimLicense(a) = ClaimLicense(b)
    \/ ClaimKey(a) = ClaimKey(b)
    \/ /\ ClaimAddress(a) # <<>> /\ ClaimAddress(b) # <<>>
       /\ NearMatch(ClaimAddress(a), {ClaimAddress(b)})
\* record a matches an entry of the seed sets
C27MatchesSeed(a) ==
    \/ ClaimLicense(a) # <<>> /\ ClaimLicense(a) \in _existing_licenses
    \/ ClaimAddress(a) # <<>> /\ NearMatch(ClaimAddress(a), _existing_addresses)

\* C27: every record remove_duplicates drops matches (by licence, by
\* name|address key or by address similarity >= 90) an entry of the seed sets
\* or a record of the returned list; none is dropped only because it matches
\* a record that was dropped itself.
C27_DroppedMatchesSeedOrReturned ==
    Returned =>
        \A i \in 1..Len(records) :
            \/ C27MatchesSeed(records[i])
            \/ \E j \in 1..Len(returned.unique_records) :
                  C27Matches(records[i], returned.unique_records[j])

\* what a call on the list gives when its seen sets start as the two given sets
C28FreshCall(list, licenses, addresses) ==
    LET RECURSIVE Run(_, _, _, _, _)
        Run(i, out, sl, sk, sa) ==
            IF i > Len(list) THEN out
            ELSE LET r == list[i]
                     sl2 == IF ClaimLicense(r) # <<>> THEN sl \cup {ClaimLicense(r)} ELSE sl
                     sk2 == sk \cup {ClaimKey(r)}
                 IN  IF ClaimLicense(r) # <<>> /\ ClaimLicense(r) \in sl
                     THEN Run(i + 1, out, sl, sk, sa)
                     ELSE IF ClaimKey(r) \in sk
                     THEN Run(i + 1, out, sl2, sk, sa)
                     ELSE IF /\ ClaimAddress(r) # <<>>
                             /\ IF Cardinality(sa) <= LARGE_ADDRESS_SET
                                THEN NearMatch(ClaimAddress(r), sa)
                                ELSE ClaimAddress(r) \in sa
                     THEN Run(i + 1, out, sl2, sk2, sa)
                     ELSE Run(i + 1, Append(out, r), sl2, sk2,
                              IF ClaimAddress(r) # <<>> THEN sa \cup {ClaimAddress(r)} ELSE sa)
    IN  Run(1, <<>>, licenses, {}, addresses)

\* C28: remove_duplicates changes the instance's seed sets only by loading
\* them, once; what a batch adds goes to the call's own copies.  Every call
\* returns what a call starting from the seed sets gives, so a second call on
\* the same instance with the same batch returns the list the first returned.
C28_SeedSetsUntouchedByBatch ==
    /\ [](Returned =>
            returned.unique_records =
                C28FreshCall(records, _existing_licenses, _existing_addresses))
    /\ [][(_initialized \/ pc = "loop")
             => UNCHANGED <<_existing_licenses, _existing_addresses>>]_vars
    /\ [][(calls = 2 /\ pc = "loop" /\ pc' = "idle" /\ returned.unique_records # <<>>)
             => returned' = returned]_vars

\* the second call on the batch has returned a record and dropped another,
\* its seen sets holding more than the seed sets, which are not empty
C28_Witness ==
    /\ Returned /\ calls = 2
    /\ returned.unique_records # <<>>
    /\ Len(returned.unique_records) < Len(records)
    /\ _existing_licenses # {} /\ _existing_licenses # seen_licenses
    /\ _existing_addresses # seen_addresses

\* the critical-lead alerts handed to one channel since the last reset
C30SinceReset(log, channel) ==
    LET last == Max(0, CHOOSE i \in 0..Len(log) :
                           /\ i = 0 \/ log[i].kind = "reset"
                           /\ \A j \in (i + 1)..Len(log) : log[j].kind # "reset")
    IN  Cardinality({j \in (last + 1)..Len(log) :
                        log[j].kind = "critical" /\ log[j].channel = channel})
C30Alerts(log) ==
    Cardinality({j \in 1..Len(log) : log[j].kind = "critical"})

\* C30: between two resets of the hourly counter the NotificationManager hands
\* at most max_instant_per_hour critical-lead alerts to a channel and
\* instant_alerts_count is never above the cap; while the counter is at the
\* cap no critical-lead alert goes to any channel, and notify_critical_lead
\* returns False for both.
C30_InstantAlertsCapped ==
    /\ [](/\ instant_alerts_count <= max_instant_per_hour
          /\ \A channel \in {"pushplus", "dingtalk"} :
                C30SinceReset(notify_log, channel) <= max_instant_per_hour)
    /\ [][instant_alerts_count >= max_instant_per_hour
             => /\ C30Alerts(notify_log') = C30Alerts(notify_log)
                /\ NotifyCriticalLead =>
                      /\ notify_log' = notify_log
                      /\ notify_result' = [pushplus |-> FALSE, dingtalk |-> FALSE]]_vars

\* a manager with a cap of one, both channels and instant alerts enabled: one
\* alert went out, the counter was reset, another went out, and with the
\* counter at the cap the last call returned False for both channels
C30_Witness ==
    /\ pushplus_enabled /\ dingtalk_enabled /\ ENABLE_INSTANT_ALERTS
    /\ max_instant_per_hour = 1 /\ instant_alerts_count = 1
    /\ Len(notify_log) = 5
    /\ notify_log[1].kind = "critical" /\ notify_log[3].kind = "reset"
    /\ notify_log[5].kind = "critical"
    /\ notify_result = [pushplus |-> FALSE, dingtalk |-> FALSE]

\* the messages of one kind in the notification log
C29Sent(kind) ==
    Cardinality({j \in 1..Len(notify_log) : notify_log[j].kind = kind})
C29Channels ==
    Cardinality({b \in {pushplus_enabled, dingtalk_enabled} : b})
        + (IF pushplus_enabled /\ dingtalk_enabled THEN 1 ELSE 0)

\* C29: a run of main() that ends without an error has called
\* send_daily_summary exactly once, each enabled channel getting one summary;
\* no run calls it twice; and a run in which nothing was fetched, or nothing
\* was left after deduplication, has scored no record, appended no row and
\* sent no instant alert.
C29_OneSummaryPerRun ==
    /\ Len(summaries) <= 1
    /\ main_pc \notin {"done", "error"} => summaries = <<>>
    /\ main_pc = "done" =>
          /\ Len(summaries) = 1
          /\ C29Sent("summary") = C29Channels
          /\ C29Sent("error") = 0
          /\ (all_records = <<>> \/ main_unique_records = <<>>) =>
                /\ main_scored_records = <<>>
                /\ store = [new_projects |-> <<>>, sales |-> <<>>, tenders |-> <<>>]
                /\ C29Sent("critical") = 0 /\ C29Sent("high") = 0
                /\ instant_alerts_count = 0
                /\ summaries[1] = [canada |-> 0, australia |-> 0, high_priority |-> 0]

\* a run that fetched two records, found both to be duplicates and ended
\* with the one summary
C29_Witness ==
    /\ main_pc = "done"
    /\ Len(all_records) = 2 /\ main_unique_records = <<>>
    /\ Len(summaries) = 1
    /\ C29Sent("summary") = 2

C26Countries ==
    {"canada_new", "canada_sales", "canada_tenders",
     "australia_new", "australia_sales", "australia_tenders"}
C26Priorities == {"critical_count", "high_count", "medium_count", "low_count"}
C26Sum(stats, keys) ==
    LET RECURSIVE Total(_)
        Total(rest) == IF rest = {} THEN 0
                       ELSE LET k == CHOOSE k \in rest : TRUE
                            IN  stats[k] + Total(rest \ {k})
    IN  Total(keys)
\* the statistics of each record of the list taken alone
C26Alone(list) == [i \in 1..Len(list) |-> get_statistics(<<list[i]>>)]
C26Word(priority) ==
    CASE priority = "Critical" -> "critical_count"
      [] priority = "High" -> "high_count"
      [] priority = "Medium" -> "medium_count"
      [] OTHER -> "low_count"
C26Counts(stats, list, alone) ==
    /\ stats["total"] = Len(list)
    /\ C26Sum(stats, C26Priorities) = stats["total"]
    /\ C26Sum(stats, C26Countries) <= stats["total"]
    /\ \A k \in C26Countries \cup C26Priorities :
          stats[k] = Cardinality({i \in 1..Len(list) : alone[i][k] = 1})
    /\ \A i \in 1..Len(list) :
          /\ C26Sum(alone[i], C26Priorities) = 1
          /\ C26Sum(alone[i], C26Countries) <= 1
          /\ \A k \in C26Priorities :
                alone[i][k] = 1 <=> k = C26Word(list[i]["priority"])

\* C26: the statistics that main() computes over the scored records have
\* total = the number of records; each record adds one to exactly one of the
\* four priority counters, which sum to total, and to at most one of the six
\* country-and-type counters; every counter is the number of records that
\* add to it; and the step that computes the statistics leaves the records
\* as they were.
C26_StatisticsArePureCounts ==
    /\ [](DOMAIN daily_stats # {} =>
            \A alone \in {C26Alone(main_scored_records)} :
                C26Counts(daily_stats, main_scored_records, alone))
    /\ [][daily_stats' # daily_stats => main_scored_records' = main_scored_records]_vars

\* a finished run whose statistics count a sale in "Canada / Australia" once,
\* for Canada, and a request for proposals from elsewhere for its priority
\* only
C26_Witness ==
    /\ main_pc = "done"
    /\ Len(main_scored_records) = 2
    /\ main_scored_records[1]["country"] = <<"C", "a", "n", "a", "d", "a", " ", "/", " ", "A", "u", "s", "t", "r", "a", "l", "i", "a">>
    /\ main_scored_records[2]["type"] = <<"r", "f", "p">>
    /\ DOMAIN daily_stats # {}
    /\ daily_stats["total"] = 2
    /\ daily_stats["canada_sales"] = 1 /\ daily_stats["australia_sales"] = 0
    /\ C26Sum(daily_stats, C26Countries) = 1
    /\ C26Sum(daily_stats, C26Priorities) = 2

\* the record has its licence or its address in the seed sets
C22Known(record, licenses, addresses) ==
    \/ Get(record, "license_number") \in licenses
    \/ strip(lower(Get(record, "address"))) \in addresses

\* C22: in the second of two runs over one store, with the fetchers handing
\* over the same batch, the seed sets that the run loads hold the licence or
\* the address of every record the first run kept and appended, and the run
\* returns none of these records.
C22_PersistedRecordsDroppedLater ==
    [][runs = 2 =>
          /\ (calls = 0 /\ calls' = 1) =>
                \A i \in 1..Len(returned.unique_records) :
                    C22Known(returned.unique_records[i],
                             _existing_licenses', _existing_addresses')
          /\ (pc = "loop" /\ pc' = "idle") =>
                \A i \in 1..Len(returned.unique_records) :
                \A j \in 1..Len(returned'.unique_records) :
                    returned'.unique_records[j] # returned.unique_records[i]]_vars

====
